---- MODULE Spec2Model ----
(***************************************************************************)
(* Model of the Splunk MCP adapter: the SplunkClient request/normalization *)
(* layer (splunk-client.ts, specification Spec; FairSpec adds that no      *)
(* upstream request waits for ever; ClientSpec starts before the           *)
(* constructor has run), the SignalFxClient tracing client                 *)
(* (signalFx-client.ts, TracingSpec) and the tool handlers of the server   *)
(* entry points (ServerSpec).  One invocation at a time; every handler is  *)
(* cut at its `await` points, the upstream answers are drawn from small    *)
(* sets.                                                                   *)
(*                                                                         *)
(* Encoding of JavaScript values:                                          *)
(*   - an optional value (possibly undefined) is a sequence of length <= 1 *)
(*     (<<>> is undefined, <<v>> is the value v);                          *)
(*   - a scalar-or-array field is a record [tag, val] with tag in          *)
(*     {"absent", "scalar", "array"} and val a sequence;                   *)
(*   - strings are TLA+ strings, handled character by character.           *)
(***************************************************************************)
EXTENDS Integers, Sequences, FiniteSets, TLC

(* ----------------------------- bounds ---------------------------------- *)
MaxPad == 1        \* whitespace characters put before / after a query
MaxBodyLen == 4    \* XML tokens in a job-creation response body
MaxEntries == 2    \* entries in an upstream `entry` envelope
MaxKeys == 3       \* keys in a KV-store collection content map
MaxStats == 2      \* items in the KV-store collection-stats `data` array
MaxSpans == 2      \* spans in a raw trace payload
MaxRows == 2       \* rows in the answer of the sourcetype search

(* ------------------------- generic helpers ----------------------------- *)
Min(S) == CHOOSE x \in S : \A y \in S : x <= y
Max(S) == CHOOSE x \in S : \A y \in S : x >= y

\* sequences over S of length <= n
SeqsUpTo(S, n) == UNION {[1..k -> S] : k \in 0..n}

\* sequences over S of length <= n without repeated elements
DistinctSeqsUpTo(S, n) ==
    {s \in SeqsUpTo(S, n) : \A i, j \in 1..Len(s) : i # j => s[i] # s[j]}

RECURSIVE Join(_)
Join(toks) == IF toks = <<>> THEN "" ELSE Head(toks) \o Join(Tail(toks))

Absent == <<>>
Some(v) == <<v>>

(* ------------------------- string primitives --------------------------- *)
\* the characters i..j of s that exist (String.prototype.substring, 1-based)
Sub(s, i, j) ==
    LET last == IF j > Len(s) THEN Len(s) ELSE j
    IN  IF i < 1 \/ i > last THEN "" ELSE SubSeq(s, i, last)

CharAt(s, i) == Sub(s, i, i)

\* String.prototype.startsWith
startsWith(s, p) == Len(s) >= Len(p) /\ Sub(s, 1, Len(p)) = p

IsWhitespace(c) == c \in {" ", "\n", "\t"}

\* String.prototype.trim
trim(s) ==
    LET keep == {i \in 1..Len(s) : ~IsWhitespace(CharAt(s, i))}
    IN  IF keep = {} THEN "" ELSE Sub(s, Min(keep), Max(keep))

UpperChars == "ABCDEFGHIJKLMNOPQRSTUVWXYZ"
LowerChars == "abcdefghijklmnopqrstuvwxyz"

LowerChar(c) ==
    IF \E i \in 1..Len(UpperChars) : CharAt(UpperChars, i) = c
    THEN LET i == CHOOSE k \in 1..Len(UpperChars) : CharAt(UpperChars, k) = c
         IN  CharAt(LowerChars, i)
    ELSE c

\* String.prototype.toLowerCase
RECURSIVE toLowerCase(_)
toLowerCase(s) ==
    IF s = "" THEN ""
    ELSE LowerChar(CharAt(s, 1)) \o toLowerCase(Sub(s, 2, Len(s)))

\* String.prototype.replace(pattern, "") with a string pattern: only the
\* first occurrence is removed.
replaceFirst(s, p) ==
    LET occ == {i \in 1..(Len(s) - Len(p) + 1) : Sub(s, i, i + Len(p) - 1) = p}
    IN  IF occ = {} THEN s
        ELSE Sub(s, 1, Min(occ) - 1) \o Sub(s, Min(occ) + Len(p), Len(s))

(* ------------------------- error messages ------------------------------ *)
EmptyQueryError == "Search query cannot be empty"
SidError == "Failed to extract job SID from response"
NetworkError == "Network error"
TypeErrorMsg == "TypeError: Cannot read properties of undefined"
PushTypeError == "TypeError: sourcetypesByIndex[index].push is not a function"
IndexNotFound_NoName(indexName) == "Index not found"

IndexNotFound(indexName) == "Index not found: " \o indexName
UserNotFound(username) == "User not found: " \o username

(* ------------------------- search: pure parts -------------------------- *)
\* a plausible slip: the test for the word `search` made case-sensitive
prefixQuery_CaseSensitive(searchQuery) ==
    LET strippedQuery == trim(searchQuery)
    IN  IF ~startsWith(strippedQuery, "|")
           /\ ~startsWith(strippedQuery, "search")
        THEN "search " \o searchQuery
        ELSE searchQuery

\* the query searchSplunk sends upstream: the prefix test reads the trimmed
\* text, the text sent is built from the query as given
prefixQuery(searchQuery) ==
    LET strippedQuery == trim(searchQuery)
    IN  IF ~startsWith(strippedQuery, "|")
           /\ ~startsWith(toLowerCase(strippedQuery), "search")
        THEN "search " \o searchQuery
        ELSE searchQuery

\* the regular expression /<sid>([^<]+)<\/sid>/ matches at position i
SidMatchAt(xmlData, i) ==
    /\ Sub(xmlData, i, i + 4) = "<sid>"
    /\ LET from == i + 5
           stops == {k \in from..Len(xmlData) : CharAt(xmlData, k) = "<"}
       IN  /\ stops # {}
           /\ Min(stops) > from
           /\ Sub(xmlData, Min(stops), Min(stops) + 5) = "</sid>"

SidGroupAt(xmlData, i) ==
    LET from == i + 5
        stop == Min({k \in from..Len(xmlData) : CharAt(xmlData, k) = "<"})
    IN  Sub(xmlData, from, stop - 1)

\* a plausible slip: /<sid>([^<]*)<\/sid>/ also matches the empty element
extractSid_AllowEmpty(xmlData) ==
    LET m == {i \in 1..Len(xmlData) :
                 /\ Sub(xmlData, i, i + 4) = "<sid>"
                 /\ LET stops == {k \in (i + 5)..Len(xmlData) : CharAt(xmlData, k) = "<"}
                    IN  stops # {} /\ Sub(xmlData, Min(stops), Min(stops) + 5) = "</sid>"}
    IN  IF m = {} THEN Absent ELSE Some(SidGroupAt(xmlData, Min(m)))

\* extractSid: the first capture group of the leftmost match, or no match
extractSid(xmlData) ==
    LET m == {i \in 1..Len(xmlData) : SidMatchAt(xmlData, i)}
    IN  IF m = {} THEN Absent ELSE Some(SidGroupAt(xmlData, Min(m)))

(* ------------------------------ state ---------------------------------- *)
VARIABLES
    cfgUsername,      \* config.username, optional
    cfgPassword,      \* config.password, optional
    cfgToken,         \* config.token, optional
    clientHeaders,    \* the Authorization default header of the HTTP client, if any
    clientAuth,       \* the basic-auth credentials of the HTTP client, if any
    pc,               \* where the running invocation is suspended
    op,               \* the operation being invoked
    arg,              \* its string argument (query, index name), "" if none
    requests,         \* upstream requests issued by the invocation, in order
    responses,        \* upstream answers received by the invocation, in order
    maxResults,       \* searchSplunk: the result cap of the call, 0 elsewhere
    currentUsername,  \* getCurrentUser: the resolved username, "" elsewhere
    collectionStats,  \* listKVStoreCollections: the stats map built so far
    result,           \* the outcome of the invocation
    accessToken,      \* SIGNALFX_ACCESS_TOKEN of the server process (optional)
    server,           \* the server program running, "none" for a bare client
    tool,             \* the tool call being served, NoTool for a direct client call
    toolResult        \* what the tool handler handed back to the MCP harness

vars == <<cfgUsername, cfgPassword, cfgToken, clientHeaders, clientAuth, pc, op, arg, requests, responses, maxResults, currentUsername,
          collectionStats, result, accessToken, server, tool, toolResult>>

\* the configuration and the HTTP client are fixed once the client is built
configVars == <<cfgUsername, cfgPassword, cfgToken, clientHeaders, clientAuth>>

\* the client never touches the server's configuration or its tool call
serverVars == <<accessToken, server, tool, toolResult>>

EmptyMap == [k \in {} |-> 0]

Pending == [status |-> "pending", error |-> "", value |-> <<>>]
Returned(v) == [status |-> "ok", error |-> "", value |-> v]
Thrown(msg) == [status |-> "error", error |-> msg, value |-> <<>>]

\* no tool call is being served
NoTool == [name |-> "", args |-> <<>>]

\* the tool handler has not handed anything back
NotSettled == [settled |-> "no", isError |-> FALSE, text |-> "", value |-> <<>>]

Resolved(data) == [ok |-> TRUE, data |-> data]
\* a request that failed carries the error instead of a body
Rejected(msg) == [ok |-> FALSE, error |-> msg]

JsonParams == [output_mode |-> "json"]
Get(path, params) == [method |-> "GET", path |-> path, body |-> params]
Post(path, form) == [method |-> "POST", path |-> path, body |-> form]

\* one invocation at a time: the next call starts when the client is idle
CanCall == pc = "idle"

\* a new invocation starts on a fresh call frame and issues its first request
Begin(name, a, firstRequest) ==
    /\ op' = name
    /\ arg' = a
    /\ maxResults' = 0
    /\ currentUsername' = ""
    /\ requests' = <<firstRequest>>
    /\ responses' = <<>>
    /\ collectionStats' = EmptyMap
    /\ result' = Pending
    /\ UNCHANGED <<configVars, serverVars>>

\* the awaited request is answered with `answer` and the invocation ends
Finish(answer, outcome) ==
    /\ responses' = Append(responses, answer)
    /\ result' = outcome
    /\ pc' = "done"
    /\ UNCHANGED <<configVars, op, arg, requests, maxResults, currentUsername, collectionStats,
                   serverVars>>

\* the awaited request is answered and the next one is issued
Continue(answer, nextRequest, nextPc) ==
    /\ responses' = Append(responses, answer)
    /\ requests' = Append(requests, nextRequest)
    /\ pc' = nextPc
    /\ UNCHANGED <<configVars, op, arg, maxResults, currentUsername, collectionStats, result,
                   serverVars>>

\* the outer try/catch of every operation logs and rethrows the same error
TransportFailure(at) ==
    /\ pc = at
    /\ Finish(Rejected(NetworkError), Thrown(NetworkError))

(* --------------------------- inputs ------------------------------------ *)
\* queries: the texts of the tests and of getIndexesAndSourcetypes (which
\* starts with a line break), behind leading blanks or before a trailing one
Pads == {Join(p) : p \in SeqsUpTo({" "}, MaxPad)}
QueryCores ==
    {"", "index=main", "| stats count", "search index=main", "SEARCH index=main",
     "\n | tstats count"}
Queries ==
    {lead \o core : lead \in Pads, core \in QueryCores}
    \cup {core \o " " : core \in QueryCores}

\* the default of the parameter `maxResults: number = 100`
DefaultMaxResults == 100
MaxResultsArgs == {Absent, Some(5)}

XmlTokens == {"<sid>", "</sid>", "<r>", "7"}
XmlBodies == {Join(t) : t \in SeqsUpTo(XmlTokens, MaxBodyLen)}

RowA == [host |-> "a"]
RowB == [host |-> "b"]
\* resultsResponse.data.results: missing, or rows in some order
ResultsPayloads ==
    {Absent} \cup {Some(r) : r \in {<<>>, <<RowA>>, <<RowA, RowB>>, <<RowB, RowA>>}}

(* --------------------------- searchSplunk ------------------------------ *)
queryRejected_Never(searchQuery) == FALSE

\* `if (!searchQuery)`: a string is falsy exactly when it is empty
queryRejected(searchQuery) == searchQuery = ""

JobForm(searchQuery) ==
    [search |-> searchQuery, earliest_time |-> "-24h", latest_time |-> "now",
     exec_mode |-> "blocking"]

ResultsPath(jobSid) == "/services/search/jobs/" \o jobSid \o "/results"

\* the method up to its first await, for the given arguments
searchSplunk_start(searchQuery, cap) ==
    /\ op' = "searchSplunk"
    /\ arg' = searchQuery
    /\ maxResults' = IF cap = Absent THEN DefaultMaxResults ELSE cap[1]
    /\ currentUsername' = ""
    /\ responses' = <<>>
    /\ collectionStats' = EmptyMap
    /\ UNCHANGED <<configVars, serverVars>>
    /\ IF queryRejected(searchQuery)
       THEN /\ requests' = <<>>
            /\ result' = Thrown(EmptyQueryError)
            /\ pc' = "done"
       ELSE /\ requests' = <<Post("/services/search/jobs",
                                  JobForm(prefixQuery(searchQuery)))>>
            /\ result' = Pending
            /\ pc' = "post"

searchSplunk_call ==
    /\ CanCall
    /\ \E searchQuery \in Queries, cap \in MaxResultsArgs :
         searchSplunk_start(searchQuery, cap)

searchSplunk_jobCreated ==
    /\ pc = "post"
    /\ \E xmlData \in XmlBodies :
         LET jobSid == extractSid(xmlData)
         IN  IF jobSid = Absent
             THEN Finish(Resolved(xmlData), Thrown(SidError))
             ELSE Continue(Resolved(xmlData),
                           Get(ResultsPath(jobSid[1]),
                               [output_mode |-> "json", count |-> maxResults]),
                           "results")

searchSplunk_jobFailed_Retry ==
    /\ pc = "post"
    /\ Len(requests) < 2
    /\ Continue(Rejected(NetworkError), requests[1], "post")

\* the catch block logs and rethrows: a failed job creation is not retried
searchSplunk_jobFailed == TransportFailure("post")

searchSplunk_results_DropsRows ==
    /\ pc = "results"
    /\ \E results \in ResultsPayloads :
         Finish(Resolved(results), Returned(<<>>))

searchSplunk_results_Polls ==
    /\ pc = "results"
    /\ Continue(Resolved(Absent), requests[Len(requests)], "polling")

\* the results request is answered and the invocation ends
searchSplunk_results ==
    /\ pc = "results"
    /\ \E results \in ResultsPayloads :
         Finish(Resolved(results),
                Returned(IF results = Absent THEN <<>> ELSE results[1]))

searchSplunk_resultsFailed == TransportFailure("results")

(* ------------------- entry envelopes {entry: [...]} -------------------- *)
EntryName(i) == "e" \o ToString(i)

\* entries named e1, e2, ... in upstream order, one per content
Named(contents) ==
    [i \in 1..Len(contents) |-> [name |-> EntryName(i), content |-> contents[i]]]

\* response.data of a listing endpoint: `entry` missing, or a list of entries
Envelopes(C) == {Absent} \cup {Some(Named(cs)) : cs \in SeqsUpTo(C, MaxEntries)}

\* response.data of a single-resource endpoint: the handlers read entry[0] only
SingleEnvelopes(C) == {Absent, Some(<<>>)} \cup {Some(Named(<<c>>)) : c \in C}

\* `!data.entry || data.entry.length === 0`
NoEntry(entry) == entry = Absent \/ entry[1] = <<>>

\* `data.entry || []`
entryOrEmpty(entry) == IF entry = Absent THEN <<>> ELSE entry[1]

\* `x || d` on an optional string: undefined and "" are both falsy
orDefault(x, d) == IF x = Absent \/ x[1] = "" THEN d ELSE x[1]

(* ----------------------------- listIndexes ----------------------------- *)
IndexEnvelopes == Envelopes({Absent})

listIndexes_start ==
    /\ Begin("listIndexes", "", Get("/services/data/indexes", JsonParams))
    /\ pc' = "indexes"

listIndexes_call == CanCall /\ listIndexes_start

\* response.data.entry.map(...): `entry` is read without a fallback
listIndexes_response ==
    /\ pc = "indexes"
    /\ \E data \in IndexEnvelopes :
         IF data = Absent
         THEN Finish(Resolved(data), Thrown(TypeErrorMsg))
         ELSE Finish(Resolved(data),
                     Returned([i \in 1..Len(data[1]) |-> data[1][i].name]))

listIndexes_failed == TransportFailure("indexes")

(* ----------------------------- getIndexInfo ---------------------------- *)
IndexNameArgs == {"main", "nonexistent"}
CounterValues == {Absent, Some(""), Some("42"), Some("n/a")}
IndexContents ==
    {Absent} \cup
    {Some([totalEventCount |-> a, currentDBSizeMB |-> b, maxTotalDataSizeMB |-> c,
           minTime |-> d, maxTime |-> e]) :
        a \in CounterValues, b \in CounterValues, c \in CounterValues,
        d \in CounterValues, e \in CounterValues}

IndexPath(indexName) == "/services/data/indexes/" \o indexName

getIndexInfo_start(indexName) ==
    /\ Begin("getIndexInfo", indexName, Get(IndexPath(indexName), JsonParams))
    /\ pc' = "indexInfo"

getIndexInfo_call ==
    /\ CanCall
    /\ \E indexName \in IndexNameArgs : getIndexInfo_start(indexName)

IndexInfoEnvelopes == SingleEnvelopes(IndexContents)

getIndexInfo_response ==
    /\ pc = "indexInfo"
    /\ \E data \in IndexInfoEnvelopes :
         IF NoEntry(data)
         THEN Finish(Resolved(data), Thrown(IndexNotFound(arg)))
         ELSE LET content == data[1][1].content
              IN  IF content = Absent
                  THEN Finish(Resolved(data), Thrown(TypeErrorMsg))
                  ELSE Finish(Resolved(data),
                         Returned(<<[name |-> arg,
                           totalEventCount |-> orDefault(content[1].totalEventCount, "0"),
                           currentDBSizeMB |-> orDefault(content[1].currentDBSizeMB, "0"),
                           maxTotalDataSizeMB |-> orDefault(content[1].maxTotalDataSizeMB, "0"),
                           minTime |-> orDefault(content[1].minTime, "0"),
                           maxTime |-> orDefault(content[1].maxTime, "0")]>>))

getIndexInfo_failed == TransportFailure("indexInfo")

(* --------------------------- listSavedSearches ------------------------- *)
SavedSearchContents ==
    {Absent} \cup
    {Some([description |-> d, search |-> q]) :
        d \in {Absent, Some("daily report")}, q \in {Absent, Some("index=main")}}

\* `entry.content?.description || ""`, `entry.content?.search || ""`
savedSearchOf(entry) ==
    [name |-> entry.name,
     description |-> IF entry.content = Absent THEN ""
                     ELSE orDefault(entry.content[1].description, ""),
     search |-> IF entry.content = Absent THEN ""
                ELSE orDefault(entry.content[1].search, "")]

\* the loop over the entries; nothing in its try block can throw
savedSearchesOf(entries) == [i \in 1..Len(entries) |-> savedSearchOf(entries[i])]

listSavedSearches_call ==
    /\ CanCall
    /\ Begin("listSavedSearches", "", Get("/services/saved/searches", JsonParams))
    /\ pc' = "saved"

SavedSearchEnvelopes == Envelopes(SavedSearchContents)

listSavedSearches_response ==
    /\ pc = "saved"
    /\ \E data \in SavedSearchEnvelopes :
         Finish(Resolved(data),
                Returned(savedSearchesOf(entryOrEmpty(data))))

listSavedSearches_failed == TransportFailure("saved")

(* ------------------------------ healthCheck ---------------------------- *)
AppContents ==
    {Absent} \cup
    {Some([label |-> l, version |-> v]) :
        l \in {Absent, Some("Search")}, v \in {Absent, Some("9.1")}}

\* `entry.content?.label || entry.name`, `entry.content?.version || "unknown"`
appOf(entry) ==
    [name |-> entry.name,
     label |-> IF entry.content = Absent THEN entry.name
               ELSE orDefault(entry.content[1].label, entry.name),
     version |-> IF entry.content = Absent THEN "unknown"
                 ELSE orDefault(entry.content[1].version, "unknown")]

appsOf(entries) == [i \in 1..Len(entries) |-> appOf(entries[i])]

healthCheck_call ==
    /\ CanCall
    /\ Begin("healthCheck", "", Get("/services/apps/local", JsonParams))
    /\ pc' = "apps"

AppEnvelopes == Envelopes(AppContents)

\* the result record {status, connection, apps_count, apps}; the fixed
\* connection summary is left out, value holds `apps`
healthCheck_response ==
    /\ pc = "apps"
    /\ \E data \in AppEnvelopes :
         Finish(Resolved(data),
                Returned(appsOf(entryOrEmpty(data))))

healthCheck_failed == TransportFailure("apps")

(* ------------------------- users: raw values --------------------------- *)
AbsentValue == [tag |-> "absent", val |-> <<>>]
Scalar(v) == [tag |-> "scalar", val |-> <<v>>]
Array(vs) == [tag |-> "array", val |-> vs]

\* what upstream may send for `roles` / `capabilities`
RawValues == {AbsentValue, Scalar(""), Scalar("admin"), Array(<<>>), Array(<<"admin", "user">>)}

\* a non-array value is truthy when it is present and not the empty string
Truthy(raw) == raw.tag = "scalar" /\ raw.val[1] # ""

\* the plain fields of a user content: some sent, some missing
Profiles ==
    {[realname |-> Some("Administrator"), email |-> Absent,
      defaultApp |-> Some("launcher"), type |-> Absent]}

UserContents ==
    {Absent} \cup
    {Some([realname |-> p.realname, email |-> p.email, defaultApp |-> p.defaultApp,
           type |-> p.type, roles |-> r, capabilities |-> c]) :
        p \in Profiles, r \in RawValues, c \in RawValues}

\* Array.isArray(x) ? x : []
arrayOrEmpty(raw) == IF raw.tag = "array" THEN raw.val ELSE <<>>

\* Array.isArray(x) ? x : x ? [x] : []
arrayOrWrap(raw) ==
    IF raw.tag = "array" THEN raw.val
    ELSE IF Truthy(raw) THEN <<raw.val[1]>> ELSE <<>>

userRecord(username, content, roles, capabilities) ==
    [username |-> username,
     real_name |-> orDefault(content.realname, "N/A"),
     email |-> orDefault(content.email, "N/A"),
     roles |-> roles,
     capabilities |-> capabilities,
     default_app |-> orDefault(content.defaultApp, "search"),
     type |-> orDefault(content.type, "user")]

(* ------------------------------- listUsers ----------------------------- *)
listUsers_roles(content) == arrayOrWrap(content.roles)

listUsers_capabilities_ArrayOnly(content) == arrayOrEmpty(content.capabilities)

listUsers_capabilities(content) == arrayOrWrap(content.capabilities)

\* reading content.roles of an entry without content throws inside the
\* per-entry try block
userEntryThrows(entry) == entry.content = Absent

userOf(entry) ==
    userRecord(entry.name, entry.content[1],
               listUsers_roles(entry.content[1]),
               listUsers_capabilities(entry.content[1]))

\* the loop over the entries: an entry whose processing throws is logged and
\* skipped, the others are pushed in upstream order
usersOf(entries) ==
    LET kept == SelectSeq(entries, LAMBDA e : ~userEntryThrows(e))
    IN  [i \in 1..Len(kept) |-> userOf(kept[i])]

listUsers_call ==
    /\ CanCall
    /\ Begin("listUsers", "", Get("/services/authentication/users", JsonParams))
    /\ pc' = "users"

\* a JSON null standing in the `entry` array: it has neither name nor content
NullEntry == [name |-> "null", content |-> Absent]

\* the per-entry catch block builds its log line from `entry.name`: on a null
\* entry that read throws again, outside the per-entry try
userCatchThrows(entry) == entry = NullEntry

\* `entries` with the entry at position k replaced by null
WithNullAt(entries, k) == [i \in 1..Len(entries) |-> IF i = k THEN NullEntry ELSE entries[i]]

\* listings in which the entry at some position, if there is one, is null;
\* the others come with or without content
NullEntryEnvelopes ==
    {Some(WithNullAt(Named(cs), k)) :
        cs \in SeqsUpTo({Absent, Some([realname |-> Some("Administrator"), email |-> Absent,
                                       defaultApp |-> Some("launcher"), type |-> Absent,
                                       roles |-> Scalar("admin"),
                                       capabilities |-> Array(<<"admin", "user">>)])},
                        MaxEntries),
        k \in 1..MaxEntries}

UserEnvelopes == Envelopes(UserContents) \cup NullEntryEnvelopes

\* the loop ends with the users pushed, unless the catch block itself threw:
\* that error reaches the outer catch, which rethrows it
listUsers_response ==
    /\ pc = "users"
    /\ \E data \in UserEnvelopes :
         IF \E i \in 1..Len(entryOrEmpty(data)) : userCatchThrows(entryOrEmpty(data)[i])
         THEN Finish(Resolved(data), Thrown(TypeErrorMsg))
         ELSE Finish(Resolved(data),
                     Returned(usersOf(entryOrEmpty(data))))

listUsers_failed == TransportFailure("users")

(* ----------------------------- getCurrentUser -------------------------- *)
ContextContents ==
    {Absent} \cup {Some([username |-> u]) : u \in {Absent, Some(""), Some("bob")}}

UserPath(username) == "/services/authentication/users/" \o username

\* this.config.username || "admin"
configuredUsername(username) == orDefault(username, "admin")

resolveUsername_IgnoreContext(fallback, contextData) == fallback

\* the username of entry[0].content of the current-context answer, when there
\* is one and it is truthy; the fallback otherwise
resolveUsername(fallback, contextData) ==
    IF NoEntry(contextData) THEN fallback
    ELSE LET content == contextData[1][1].content
         IN  IF content = Absent THEN fallback ELSE orDefault(content[1].username, fallback)

getCurrentUser_roles(content) == arrayOrWrap(content.roles)

getCurrentUser_capabilities(content) == arrayOrEmpty(content.capabilities)

getCurrentUser_call ==
    /\ CanCall
    /\ op' = "getCurrentUser"
    /\ arg' = ""
    /\ maxResults' = 0
    /\ currentUsername' = configuredUsername(cfgUsername)
    /\ requests' = <<Get("/services/authentication/current-context", JsonParams)>>
    /\ responses' = <<>>
    /\ collectionStats' = EmptyMap
    /\ result' = Pending
    /\ pc' = "context"
    /\ UNCHANGED <<configVars, serverVars>>

\* the username is settled and the user request is issued
getCurrentUser_lookup(answer, username) ==
    /\ responses' = Append(responses, answer)
    /\ currentUsername' = username
    /\ requests' = Append(requests, Get(UserPath(username), JsonParams))
    /\ pc' = "user"
    /\ UNCHANGED <<configVars, op, arg, maxResults, collectionStats, result, serverVars>>

ContextEnvelopes == SingleEnvelopes(ContextContents)

getCurrentUser_context ==
    /\ pc = "context"
    /\ \E contextData \in ContextEnvelopes :
         getCurrentUser_lookup(Resolved(contextData),
                               resolveUsername(currentUsername, contextData))

\* the inner catch swallows the failure of the context lookup
getCurrentUser_contextFailed ==
    /\ pc = "context"
    /\ getCurrentUser_lookup(Rejected(NetworkError), currentUsername)

CurrentUserEnvelopes == SingleEnvelopes(UserContents)

getCurrentUser_user ==
    /\ pc = "user"
    /\ \E data \in CurrentUserEnvelopes :
         IF NoEntry(data)
         THEN Finish(Resolved(data), Thrown(UserNotFound(currentUsername)))
         ELSE LET content == data[1][1].content
              IN  IF content = Absent
                  THEN Finish(Resolved(data), Thrown(TypeErrorMsg))
                  ELSE Finish(Resolved(data),
                              Returned(<<userRecord(currentUsername, content[1],
                                                    getCurrentUser_roles(content[1]),
                                                    getCurrentUser_capabilities(content[1]))>>))

getCurrentUser_userFailed == TransportFailure("user")

(* ------------------------ listKVStoreCollections ----------------------- *)
\* one item of the stats `data` array: a JSON string or an object; `parses`
\* is FALSE for a string JSON.parse rejects
StatItems ==
    {[parses |-> FALSE, ns |-> Absent, count |-> Absent],
     [parses |-> TRUE, ns |-> Absent, count |-> Some(7)],
     [parses |-> TRUE, ns |-> Some("search.e1"), count |-> Absent],
     [parses |-> TRUE, ns |-> Some("search.e1"), count |-> Some(3)],
     [parses |-> TRUE, ns |-> Some("search.e1"), count |-> Some(7)],
     [parses |-> TRUE, ns |-> Some("unknown.e2"), count |-> Some(7)]}

StatsContents ==
    {Absent, Some([data |-> Absent])}
    \cup {Some([data |-> Some(items)]) : items \in SeqsUpTo(StatItems, MaxStats)}

\* `parsed.ns && parsed.count !== undefined`
statStored(item) ==
    item.parses /\ item.ns # Absent /\ item.ns[1] # "" /\ item.count # Absent

\* the map the loop over `data` builds: a later item overwrites an earlier one
RECURSIVE statsOf(_)
statsOf(items) ==
    IF items = <<>> THEN EmptyMap
    ELSE LET prev == statsOf(SubSeq(items, 1, Len(items) - 1))
             item == items[Len(items)]
         IN  IF statStored(item)
             THEN [k \in DOMAIN prev \cup {item.ns[1]} |->
                      IF k = item.ns[1] THEN item.count[1] ELSE prev[k]]
             ELSE prev

\* the stats map after a successful stats answer; a missing content throws
\* inside the inner try and leaves the map empty
collectionStatsOf(statsData) ==
    IF NoEntry(statsData) THEN EmptyMap
    ELSE LET content == statsData[1][1].content
         IN  IF content = Absent \/ content[1].data = Absent THEN EmptyMap
             ELSE statsOf(content[1].data[1])

KVKeys == {"field.id", "accelerated_field.name", "field.field.x", "my_field.z"}
ExampleContent == <<"field.id", "field.name", "accelerated_field.name">>

\* the keys of a collection's content map, in enumeration order
KVKeyLists == DistinctSeqsUpTo(KVKeys, MaxKeys)

KVApps == {Absent, Some("search")}

\* the config answers: listings of plain collections, and single collections
\* with every content map
KVEnvelopes ==
    Envelopes({[app |-> a, keys |-> k] : a \in KVApps, k \in {Absent, Some(ExampleContent)}})
    \cup {Some(Named(<<[app |-> Some("search"), keys |-> Some(k)]>>)) : k \in KVKeyLists}

isField_Contains(key) == \E i \in 1..Len(key) : Sub(key, i, i + 5) = "field."

isField(key) == startsWith(key, "field.")

isAccelField(key) == ~isField(key) /\ startsWith(key, "accelerated_field.")

\* the for-in loop over content; it does not run when content is undefined
fieldsOf(keys) ==
    LET sel == IF keys = Absent THEN <<>> ELSE SelectSeq(keys[1], isField)
    IN  [i \in 1..Len(sel) |-> replaceFirst(sel[i], "field.")]

accelFieldsOf(keys) ==
    LET sel == IF keys = Absent THEN <<>> ELSE SelectSeq(keys[1], isAccelField)
    IN  [i \in 1..Len(sel) |-> replaceFirst(sel[i], "accelerated_field.")]

\* entry.acl?.app || "unknown"
appOfEntry(entry) == orDefault(entry.content.app, "unknown")

recordCount_NameOnly(stats, app, collectionName) ==
    IF \E k \in DOMAIN stats : k = "search." \o collectionName
    THEN stats["search." \o collectionName] ELSE 0

\* collectionStats[`${app}.${collectionName}`] || 0
recordCount(stats, app, collectionName) ==
    LET key == app \o "." \o collectionName
    IN  IF key \in DOMAIN stats THEN stats[key] ELSE 0

listKVStoreCollections_call ==
    /\ CanCall
    /\ Begin("listKVStoreCollections", "",
             Get("/services/server/introspection/kvstore/collectionstats", JsonParams))
    /\ pc' = "stats"

\* the stats answer is processed and the config request is issued
listKVStoreCollections_fetchConfig(answer, stats) ==
    /\ responses' = Append(responses, answer)
    /\ collectionStats' = stats
    /\ requests' = Append(requests,
                          Get("/servicesNS/-/-/storage/collections/config", JsonParams))
    /\ pc' = "config"
    /\ UNCHANGED <<configVars, op, arg, maxResults, currentUsername, result, serverVars>>

StatsEnvelopes == SingleEnvelopes(StatsContents)

listKVStoreCollections_stats ==
    /\ pc = "stats"
    /\ \E statsData \in StatsEnvelopes :
         listKVStoreCollections_fetchConfig(Resolved(statsData), collectionStatsOf(statsData))

\* the inner catch swallows the failure of the stats request
listKVStoreCollections_statsFailed ==
    /\ pc = "stats"
    /\ listKVStoreCollections_fetchConfig(Rejected(NetworkError), EmptyMap)

collectionOf(entry, stats) ==
    [name |-> entry.name,
     app |-> appOfEntry(entry),
     fields |-> fieldsOf(entry.content.keys),
     accelerated_fields |-> accelFieldsOf(entry.content.keys),
     record_count |-> recordCount(stats, appOfEntry(entry), entry.name)]

\* the loop over the entries; for-in over an undefined content does not throw
collectionsOf(entries, stats) ==
    [i \in 1..Len(entries) |-> collectionOf(entries[i], stats)]

listKVStoreCollections_config ==
    /\ pc = "config"
    /\ \E data \in KVEnvelopes :
         Finish(Resolved(data),
                Returned(collectionsOf(entryOrEmpty(data), collectionStats)))

listKVStoreCollections_configFailed == TransportFailure("config")

(* ----------------------- getIndexesAndSourcetypes ---------------------- *)
InventoryQuery ==
    "\n        | tstats count WHERE index=* BY index, sourcetype"
    \o "\n        | stats count BY index, sourcetype"
    \o "\n        | sort - count\n      "
InventoryMaxResults == 10000

\* rows of the sourcetype search: every field may be missing
InventoryIndexNames == {Absent, Some("main"), Some("web"), Some("constructor")}
InventoryRows ==
    {[index |-> i, sourcetype |-> s, count |-> c] :
        i \in InventoryIndexNames, s \in {Absent, Some("syslog")}, c \in {Absent, Some("5")}}
InventoryPayloads == {Absent} \cup {Some(rows) : rows \in SeqsUpTo(InventoryRows, MaxRows)}

\* job-creation answers: one with a job id, one without
InventoryBodies == {"<sid>7</sid>", "<r>"}

\* what a fresh object literal `{}` answers for names it does not own:
\* the properties it inherits from Object.prototype
ObjectPrototypeKeys ==
    {"constructor", "toString", "valueOf", "hasOwnProperty", "isPrototypeOf", "__proto__"}

\* `sourcetypesByIndex[index]` is truthy: an own array, or an inherited member
groupPresent(groups, index) == index \in DOMAIN groups \/ index \in ObjectPrototypeKeys

sourcetypeItem(row) ==
    [sourcetype |-> orDefault(row.sourcetype, ""), count |-> orDefault(row.count, "0")]

\* the grouping loop run over `rows` from the groups built so far: the
\* resulting object, or nothing when `.push` is called on something that is
\* not an array (a TypeError)
RECURSIVE groupRows(_, _)
groupRows(rows, groups) ==
    IF rows = <<>> THEN Some(groups)
    ELSE LET index == orDefault(Head(rows).index, "")
             started == IF groupPresent(groups, index) THEN groups
                        ELSE groups @@ (index :> <<>>)
         IN  IF index \notin DOMAIN started THEN Absent
             ELSE groupRows(Tail(rows),
                      [started EXCEPT ![index] = Append(@, sourcetypeItem(Head(rows)))])

\* Object.values(groups).reduce((sum, st) => sum + st.length, 0)
RECURSIVE totalSourcetypes(_)
totalSourcetypes(groups) ==
    IF DOMAIN groups = {} THEN 0
    ELSE LET k == CHOOSE x \in DOMAIN groups : TRUE
         IN  Len(groups[k])
             + totalSourcetypes([x \in DOMAIN groups \ {k} |-> groups[x]])

inventoryOf(indexes, groups) ==
    [indexes |-> indexes,
     sourcetypes |-> groups,
     metadata |-> [total_indexes |-> Len(indexes),
                   total_sourcetypes |-> totalSourcetypes(groups),
                   search_time_range |-> "24 hours"]]

\* indexesResponse.indexes, from the answer kept of the index listing
listedIndexes(data) == [i \in 1..Len(data[1]) |-> data[1][i].name]

getIndexesAndSourcetypes_call_Parallel ==
    /\ CanCall
    /\ op' = "getIndexesAndSourcetypes"
    /\ arg' = ""
    /\ maxResults' = InventoryMaxResults
    /\ currentUsername' = ""
    /\ requests' = <<Get("/services/data/indexes", JsonParams),
                     Post("/services/search/jobs", JobForm(prefixQuery(InventoryQuery)))>>
    /\ responses' = <<>>
    /\ collectionStats' = EmptyMap
    /\ result' = Pending
    /\ pc' = "inventoryIndexes"
    /\ UNCHANGED <<configVars, serverVars>>

\* the method up to its first await: the index listing is requested
getIndexesAndSourcetypes_call ==
    /\ CanCall
    /\ Begin("getIndexesAndSourcetypes", "", Get("/services/data/indexes", JsonParams))
    /\ pc' = "inventoryIndexes"

\* listIndexes returns; searchSplunk(searchQuery, "-24h", "now", 10000) starts
getIndexesAndSourcetypes_indexes ==
    /\ pc = "inventoryIndexes"
    /\ \E data \in IndexEnvelopes :
         /\ responses' = Append(responses, Resolved(data))
         /\ IF data = Absent
            THEN /\ result' = Thrown(TypeErrorMsg)
                 /\ pc' = "done"
                 /\ UNCHANGED <<requests, maxResults>>
            ELSE IF queryRejected(InventoryQuery)
            THEN /\ result' = Thrown(EmptyQueryError)
                 /\ pc' = "done"
                 /\ UNCHANGED <<requests, maxResults>>
            ELSE /\ requests' = Append(requests,
                                    Post("/services/search/jobs",
                                         JobForm(prefixQuery(InventoryQuery))))
                 /\ maxResults' = InventoryMaxResults
                 /\ pc' = "inventoryPost"
                 /\ UNCHANGED result
    /\ UNCHANGED <<configVars, op, arg, currentUsername, collectionStats, serverVars>>

getIndexesAndSourcetypes_indexesFailed == TransportFailure("inventoryIndexes")

getIndexesAndSourcetypes_jobCreated ==
    /\ pc = "inventoryPost"
    /\ \E xmlData \in InventoryBodies :
         LET jobSid == extractSid(xmlData)
         IN  IF jobSid = Absent
             THEN Finish(Resolved(xmlData), Thrown(SidError))
             ELSE Continue(Resolved(xmlData),
                           Get(ResultsPath(jobSid[1]),
                               [output_mode |-> "json", count |-> maxResults]),
                           "inventoryResults")

getIndexesAndSourcetypes_jobFailed == TransportFailure("inventoryPost")

\* searchSplunk returns `results || []`; the rows are grouped and counted
getIndexesAndSourcetypes_results ==
    /\ pc = "inventoryResults"
    /\ \E results \in InventoryPayloads :
         LET rows == IF results = Absent THEN <<>> ELSE results[1]
             groups == groupRows(rows, EmptyMap)
         IN  IF groups = Absent
             THEN Finish(Resolved(results), Thrown(PushTypeError))
             ELSE Finish(Resolved(results),
                         Returned(<<inventoryOf(listedIndexes(responses[1].data),
                                                groups[1])>>))

getIndexesAndSourcetypes_resultsFailed == TransportFailure("inventoryResults")

(* ======================================================================= *)
(*              tracing client (signalFx-client.ts, SignalFxClient)        *)
(* ======================================================================= *)
(* A JavaScript value standing in a numeric position is a record           *)
(* [kind, n, s]: the kinds are "undefined", "null", "number" (n), "string" *)
(* (s), "NaN", "Infinity" and "-Infinity".                                 *)

Undefined == [kind |-> "undefined", n |-> 0, s |-> ""]
Null == [kind |-> "null", n |-> 0, s |-> ""]
Num(n) == [kind |-> "number", n |-> n, s |-> ""]
Text(s) == [kind |-> "string", n |-> 0, s |-> s]
NaN == [kind |-> "NaN", n |-> 0, s |-> ""]
PosInfinity == [kind |-> "Infinity", n |-> 0, s |-> ""]
NegInfinity == [kind |-> "-Infinity", n |-> 0, s |-> ""]

\* the values for which `v || d` yields d
Falsy(v) ==
    \/ v.kind \in {"undefined", "null", "NaN"}
    \/ v.kind = "number" /\ v.n = 0
    \/ v.kind = "string" /\ v.s = ""

\* `(x as number) || d`: the cast checks nothing at run time
numberOr(v, d) == IF Falsy(v) THEN d ELSE v

Digits == "0123456789"
IsDigit(c) == \E i \in 1..Len(Digits) : CharAt(Digits, i) = c
DigitValue(c) == (CHOOSE i \in 1..Len(Digits) : CharAt(Digits, i) = c) - 1

RECURSIVE DigitsValue(_)
DigitsValue(s) ==
    IF s = "" THEN 0
    ELSE 10 * DigitsValue(Sub(s, 1, Len(s) - 1)) + DigitValue(CharAt(s, Len(s)))

\* ToNumber: of strings, the unsigned decimal integers and "" are numeric
ToNumber(v) ==
    CASE v.kind = "undefined" -> NaN
      [] v.kind = "null" -> Num(0)
      [] v.kind = "string" ->
           IF \A i \in 1..Len(v.s) : IsDigit(CharAt(v.s, i))
           THEN Num(DigitsValue(v.s)) ELSE NaN
      [] OTHER -> v

\* String(v) of a value that reaches the `+` below
NumberToString(v) ==
    CASE v.kind = "number" -> ToString(v.n)
      [] v.kind = "string" -> v.s
      [] OTHER -> v.kind

\* a + b: concatenation as soon as one side is a string
plus(a, b) ==
    IF a.kind = "string" \/ b.kind = "string"
    THEN Text(NumberToString(a) \o NumberToString(b))
    ELSE IF a.kind = "number" /\ b.kind = "number" THEN Num(a.n + b.n)
    ELSE NaN

\* a - b on numbers, NaN and the infinities
minus(a, b) ==
    LET x == ToNumber(a)
        y == ToNumber(b)
    IN  CASE x.kind = "NaN" \/ y.kind = "NaN" -> NaN
          [] x.kind = "number" /\ y.kind = "number" -> Num(x.n - y.n)
          [] x.kind = y.kind -> NaN
          [] x.kind = "number" -> IF y.kind = "Infinity" THEN NegInfinity ELSE PosInfinity
          [] OTHER -> x

\* v <= w on numbers and the infinities
lessOrEqual(v, w) ==
    \/ v.kind = "-Infinity"
    \/ w.kind = "Infinity"
    \/ v.kind = "number" /\ w.kind = "number" /\ v.n <= w.n

\* Math.min(...values): NaN as soon as one argument is not numeric
mathMin(values) ==
    LET nums == {ToNumber(values[i]) : i \in 1..Len(values)}
    IN  IF NaN \in nums THEN NaN
        ELSE CHOOSE m \in nums : \A x \in nums : lessOrEqual(m, x)

\* Math.max(...values)
mathMax(values) ==
    LET nums == {ToNumber(values[i]) : i \in 1..Len(values)}
    IN  IF NaN \in nums THEN NaN
        ELSE CHOOSE m \in nums : \A x \in nums : lessOrEqual(x, m)

(* ------------------------------ parseTrace ----------------------------- *)
\* the `status` of a raw span, `x || "unset"`
statusOr(status) == orDefault(status, "unset")

\* `x || {}` on an optional mapping
mapOrEmpty(m) == IF m = Absent THEN EmptyMap ELSE m[1]

\* one entry of span.logs
logOf(log) ==
    [timestamp |-> numberOr(log.timestamp, Num(0)), fields |-> mapOrEmpty(log.fields)]

\* logs?.map(...)
logsOf(logs) ==
    IF logs = Absent THEN Absent
    ELSE Some([i \in 1..Len(logs[1]) |-> logOf(logs[1][i])])

\* one raw span, field by field
spanOf(span) ==
    [spanId |-> span.spanId,
     traceId |-> span.traceId,
     parentSpanId |-> span.parentSpanId,
     operationName |-> span.operationName,
     serviceName |-> span.serviceName,
     startTime |-> numberOr(span.startTime, Num(0)),
     duration |-> numberOr(span.duration, Num(0)),
     tags |-> mapOrEmpty(span.tags),
     logs |-> logsOf(span.logs),
     status |-> statusOr(span.status),
     errorMessage |-> span.errorMessage]

\* (traceData.spans || []).map(...)
spansOf(traceData) ==
    LET raw == entryOrEmpty(traceData.spans)
    IN  [i \in 1..Len(raw) |-> spanOf(raw[i])]

\* Array.from(new Set(names)): a Set keeps the first insertion of each value
\* (mutant: the names are not deduplicated)
RECURSIVE arrayFromSet(_)
arrayFromSet(names) ==
    IF names = <<>> THEN <<>>
    ELSE LET front == arrayFromSet(SubSeq(names, 1, Len(names) - 1))
             last == names[Len(names)]
         IN  IF \E i \in 1..Len(front) : front[i] = last
             THEN front ELSE Append(front, last)

servicesOf_Duplicates(spans) == [i \in 1..Len(spans) |-> spans[i].serviceName]
servicesOf(spans) == arrayFromSet([i \in 1..Len(spans) |-> spans[i].serviceName])

\* Math.min(...spans.map(s => s.startTime), Infinity)
\* (mutant: a trace without spans starts at 0)
startTimeOf_ZeroWhenEmpty(spans) ==
    IF spans = <<>> THEN Num(0)
    ELSE mathMin(Append([i \in 1..Len(spans) |-> spans[i].startTime], PosInfinity))
startTimeOf(spans) ==
    mathMin(Append([i \in 1..Len(spans) |-> spans[i].startTime], PosInfinity))

\* Math.max(...spans.map(s => s.startTime + s.duration), -Infinity)
\* (mutant: the latest span start is taken for the end of the trace)
endTimeOf_LatestStart(spans) ==
    mathMax(Append([i \in 1..Len(spans) |-> spans[i].startTime], NegInfinity))
endTimeOf(spans) ==
    mathMax(Append([i \in 1..Len(spans) |-> plus(spans[i].startTime, spans[i].duration)],
                   NegInfinity))

parseTrace(traceData) ==
    LET spans == spansOf(traceData)
    IN  [traceId |-> orDefault(traceData.traceId, ""),
         spans |-> spans,
         startTime |-> startTimeOf(spans),
         duration |-> minus(endTimeOf(spans), startTimeOf(spans)),
         services |-> servicesOf(spans),
         operationName |-> IF spans = <<>> THEN Absent ELSE Some(spans[1].operationName)]

(* ------------------------- tracing inputs ------------------------------ *)
GatewaySpan ==
    [spanId |-> "span-1", traceId |-> "trace-456", parentSpanId |-> Absent,
     operationName |-> "http.request", serviceName |-> "api-gateway",
     startTime |-> Num(1000000), duration |-> Num(150),
     tags |-> Some([k \in {"http.method"} |-> "GET"]), logs |-> Absent,
     status |-> Some("ok"), errorMessage |-> Absent]

UserServiceSpan ==
    [spanId |-> "span-2", traceId |-> "trace-456", parentSpanId |-> Some("span-1"),
     operationName |-> "db.query", serviceName |-> "user-service",
     startTime |-> Num(1000010), duration |-> Num(50),
     tags |-> Some([k \in {"db.type"} |-> "postgresql"]),
     logs |-> Some(<<[timestamp |-> Num(1000020),
                      fields |-> Some([k \in {"event"} |-> "query_start"])],
                     [timestamp |-> Undefined, fields |-> Absent]>>),
     status |-> Some("ok"), errorMessage |-> Absent]

\* a span that carries nothing but its names
BareSpan ==
    [spanId |-> "span-3", traceId |-> "trace-456", parentSpanId |-> Some("span-9"),
     operationName |-> "cache.get", serviceName |-> "api-gateway",
     startTime |-> Undefined, duration |-> Undefined,
     tags |-> Absent, logs |-> Absent, status |-> Absent, errorMessage |-> Absent]

ErrorSpan ==
    [spanId |-> "span-error", traceId |-> "trace-456", parentSpanId |-> Absent,
     operationName |-> "payment.process", serviceName |-> "payment-service",
     startTime |-> Num(999990), duration |-> Num(200),
     tags |-> Some(EmptyMap), logs |-> Some(<<>>),
     status |-> Some("error"), errorMessage |-> Some("Insufficient funds")]

\* a span whose timing fields are not numbers
GarbledSpan ==
    [spanId |-> "span-5", traceId |-> "trace-456", parentSpanId |-> Absent,
     operationName |-> "db.query", serviceName |-> "user-service",
     startTime |-> Text("n/a"), duration |-> Null,
     tags |-> Absent, logs |-> Some(<<[timestamp |-> Text("n/a"), fields |-> Absent]>>),
     status |-> Some(""), errorMessage |-> Absent]

\* a span whose status is none of the three the Span type names
TimeoutSpan ==
    [spanId |-> "span-6", traceId |-> "trace-456", parentSpanId |-> Some("span-1"),
     operationName |-> "http.request", serviceName |-> "payment-service",
     startTime |-> Num(1000020), duration |-> Num(30),
     tags |-> Absent, logs |-> Absent,
     status |-> Some("timeout"), errorMessage |-> Absent]

RawSpans == {GatewaySpan, UserServiceSpan, BareSpan, ErrorSpan, GarbledSpan, TimeoutSpan}

RawTraces ==
    {[traceId |-> t, spans |-> s] :
        t \in {Absent, Some("trace-456")},
        s \in {Absent} \cup {Some(ss) : ss \in SeqsUpTo(RawSpans, MaxSpans)}}

TraceIds == {Absent, Some(""), Some("trace-456")}

(* --------------------------- getTraceDetails --------------------------- *)
\* an argument check fails before the try block: nothing is requested
Refuse(name, a, msg) ==
    /\ op' = name
    /\ arg' = a
    /\ maxResults' = 0
    /\ currentUsername' = ""
    /\ requests' = <<>>
    /\ responses' = <<>>
    /\ collectionStats' = EmptyMap
    /\ result' = Thrown(msg)
    /\ pc' = "done"
    /\ UNCHANGED <<configVars, serverVars>>

\* `!x` on an optional string argument
Missing(x) == x = Absent \/ x[1] = ""

TraceIdRequired == "Trace ID is required"
\* (mutant: the failure does not say which argument is missing)
ServiceNameRequired_Vague == "Invalid request"
ServiceNameRequired == "Service name is required"

TracePath(traceId) == "/traces/" \o traceId

getTraceDetails_start(traceId) ==
    IF Missing(traceId)
    THEN Refuse("getTraceDetails", traceId, TraceIdRequired)
    ELSE /\ Begin("getTraceDetails", traceId, Get(TracePath(traceId[1]), Absent))
         /\ pc' = "trace"

getTraceDetails_call ==
    /\ CanCall
    /\ \E traceId \in TraceIds : getTraceDetails_start(traceId)

getTraceDetails_response ==
    /\ pc = "trace"
    /\ \E traceData \in RawTraces :
         Finish(Resolved(traceData), Returned(<<parseTrace(traceData)>>))

getTraceDetails_failed == TransportFailure("trace")

(* ----------------------------- listServices ---------------------------- *)
\* Date.now() at the time the answer is normalized
Clock == {1700000000}

RawServices ==
    {[name |-> "api-gateway", operationCount |-> Num(3), hasErrors |-> Some(TRUE),
      lastSeen |-> Num(1000000)],
     [name |-> "user-service", operationCount |-> Undefined, hasErrors |-> Absent,
      lastSeen |-> Undefined]}

ServiceListings ==
    {[services |-> s] : s \in {Absent} \cup {Some(ss) : ss \in SeqsUpTo(RawServices, 1)}}

serviceOf(service, now) ==
    [name |-> service.name,
     operationCount |-> numberOr(service.operationCount, Num(0)),
     hasErrors |-> IF service.hasErrors = Absent THEN FALSE ELSE service.hasErrors[1],
     lastSeen |-> numberOr(service.lastSeen, Num(now))]

listServices_start ==
    /\ Begin("listServices", Absent, Get("/services", Absent))
    /\ pc' = "services"

listServices_call == CanCall /\ listServices_start

listServices_response ==
    /\ pc = "services"
    /\ \E data \in ServiceListings, now \in Clock :
         LET raw == entryOrEmpty(data.services)
         IN  Finish(Resolved(data),
                    Returned([i \in 1..Len(raw) |-> serviceOf(raw[i], now)]))

listServices_failed == TransportFailure("services")

(* ------------------------- getServiceOperations ------------------------ *)
ServiceArgs == {Absent, Some(""), Some("api-gateway")}
OperationArgs == {Absent, Some(""), Some("login")}

RawOperations ==
    {[name |-> "login", spanKind |-> Some("SERVER"), tags |-> Absent]}

OperationListings ==
    {[operations |-> o] : o \in {Absent} \cup {Some(os) : os \in SeqsUpTo(RawOperations, 1)}}

OperationsPath(serviceName) == "/services/" \o serviceName \o "/operations"

getServiceOperations_start(serviceName) ==
    IF Missing(serviceName)
    THEN Refuse("getServiceOperations", serviceName, ServiceNameRequired)
    ELSE /\ Begin("getServiceOperations", serviceName,
                  Get(OperationsPath(serviceName[1]), Absent))
         /\ pc' = "operations"

getServiceOperations_call ==
    /\ CanCall
    /\ \E serviceName \in ServiceArgs : getServiceOperations_start(serviceName)

getServiceOperations_response ==
    /\ pc = "operations"
    /\ \E data \in OperationListings :
         LET raw == entryOrEmpty(data.operations)
         IN  Finish(Resolved(data),
                    Returned([i \in 1..Len(raw) |->
                                [name |-> raw[i].name, serviceName |-> arg[1],
                                 spanKind |-> raw[i].spanKind, tags |-> raw[i].tags]]))

getServiceOperations_failed == TransportFailure("operations")

(* ------------------------------ searchTraces --------------------------- *)
ExampleTags == [k \in {"env"} |-> "prod"]

\* the sparse filter objects a caller can pass
Criteria ==
    [service : {Absent, Some(""), Some("auth-service")},
     operation : {Absent, Some("login")},
     tags : {Absent, Some(ExampleTags)},
     minDuration : {Absent, Some(0), Some(100)},
     maxDuration : {Absent, Some(5000)},
     error : {Absent, Some(FALSE), Some(TRUE)},
     startTime : {Absent, Some(0)},
     endTime : {Absent, Some(2000)},
     limit : {Absent, Some(0), Some(50)},
     offset : {Absent, Some(10)}]

\* `if (criteria.x)` on an optional string
TruthyString(x) == x # Absent /\ x[1] # ""

\* `criteria.x || d` on an optional number (mutant: the caller's value is
\* never used)
countOr_AlwaysDefault(x, d) == d
countOr(x, d) == IF x = Absent \/ x[1] = 0 THEN d ELSE x[1]

\* the outgoing body: a key that is not set is Absent
buildTraceQuery(criteria) ==
    [service |-> IF TruthyString(criteria.service) THEN criteria.service ELSE Absent,
     operation |-> IF TruthyString(criteria.operation) THEN criteria.operation ELSE Absent,
     tags |-> criteria.tags,
     minDuration |-> criteria.minDuration,
     maxDuration |-> criteria.maxDuration,
     error |-> criteria.error,
     startTime |-> criteria.startTime,
     endTime |-> criteria.endTime,
     limit |-> countOr(criteria.limit, 100),
     offset |-> countOr(criteria.offset, 0)]

\* the answers of /traces/search
SearchAnswers ==
    {[traces |-> Absent, totalCount |-> Undefined],
     [traces |-> Some(<<>>), totalCount |-> Num(0)],
     [traces |-> Some(<<[traceId |-> Some("trace-456"),
                         spans |-> Some(<<GatewaySpan, UserServiceSpan>>)]>>),
      totalCount |-> Undefined],
     [traces |-> Some(<<[traceId |-> Absent, spans |-> Absent]>>),
      totalCount |-> Num(42)]}

searchTraces_start(criteria) ==
    /\ Begin("searchTraces", criteria, Post("/traces/search", buildTraceQuery(criteria)))
    /\ pc' = "traces"

searchTraces_call ==
    /\ CanCall
    /\ \E criteria \in Criteria : searchTraces_start(criteria)

searchTraces_response ==
    /\ pc = "traces"
    /\ \E data \in SearchAnswers :
         LET raw == entryOrEmpty(data.traces)
             traces == [i \in 1..Len(raw) |-> parseTrace(raw[i])]
         IN  Finish(Resolved(data),
                    Returned(<<[traces |-> traces,
                                totalCount |-> numberOr(data.totalCount, Num(Len(traces))),
                                limit |-> countOr(arg.limit, 100),
                                offset |-> countOr(arg.offset, 0)]>>))

searchTraces_failed == TransportFailure("traces")

(* ------------------- getLatencyMetrics / getErrorMetrics --------------- *)
MetricsArgs == {[service |-> s, operation |-> o] : s \in ServiceArgs, o \in OperationArgs}

\* `operation ? ... : ...` (mutant: the service-scoped path is always taken)
metricsPath_ServiceOnly(service, operation, leaf) == "/services/" \o service \o "/" \o leaf
metricsPath(service, operation, leaf) ==
    IF TruthyString(operation)
    THEN "/services/" \o service \o "/operations/" \o operation[1] \o "/" \o leaf
    ELSE "/services/" \o service \o "/" \o leaf

LatencyFields == {"p50", "p75", "p90", "p99", "mean", "min", "max", "sampleCount"}

\* the flat payloads of the latency endpoint
LatencyAnswers ==
    {[f \in LatencyFields |-> Undefined],
     [p50 |-> Num(45), p75 |-> Num(78), p90 |-> Num(120), p99 |-> Num(250),
      mean |-> Num(65), min |-> Num(10), max |-> Num(500), sampleCount |-> Num(1000)],
     [p50 |-> Num(0), p75 |-> Null, p90 |-> Undefined, p99 |-> Num(250),
      mean |-> Undefined, min |-> Num(0), max |-> Num(500), sampleCount |-> Null],
     [p50 |-> Text("n/a"), p75 |-> Num(78), p90 |-> Undefined, p99 |-> Text(""),
      mean |-> Num(65), min |-> Undefined, max |-> Text("n/a"), sampleCount |-> Num(0)]}

ExampleErrorTypes == [k \in {"TimeoutError"} |-> 3]

ErrorAnswers ==
    {[errorCount |-> Undefined, totalCount |-> Undefined, errorRate |-> Undefined,
      errorTypes |-> Absent],
     [errorCount |-> Num(5), totalCount |-> Num(100), errorRate |-> Num(5),
      errorTypes |-> Some(ExampleErrorTypes)],
     [errorCount |-> Num(0), totalCount |-> Null, errorRate |-> Undefined,
      errorTypes |-> Some(EmptyMap)],
     [errorCount |-> Text("n/a"), totalCount |-> Num(100), errorRate |-> Undefined,
      errorTypes |-> Absent]}

getLatencyMetrics_start(service, operation) ==
    IF Missing(service)
    THEN Refuse("getLatencyMetrics", [service |-> service, operation |-> operation],
                ServiceNameRequired)
    ELSE /\ Begin("getLatencyMetrics", [service |-> service, operation |-> operation],
                  Get(metricsPath(service[1], operation, "latency"), Absent))
         /\ pc' = "latency"

getLatencyMetrics_call ==
    /\ CanCall
    /\ \E a \in MetricsArgs : getLatencyMetrics_start(a.service, a.operation)

getLatencyMetrics_response ==
    /\ pc = "latency"
    /\ \E data \in LatencyAnswers :
         Finish(Resolved(data),
                Returned(<<[service |-> arg.service[1],
                            operation |-> arg.operation,
                            p50 |-> numberOr(data.p50, Num(0)),
                            p75 |-> numberOr(data.p75, Num(0)),
                            p90 |-> numberOr(data.p90, Num(0)),
                            p99 |-> numberOr(data.p99, Num(0)),
                            mean |-> numberOr(data.mean, Num(0)),
                            min |-> numberOr(data.min, Num(0)),
                            max |-> numberOr(data.max, Num(0)),
                            sampleCount |-> numberOr(data.sampleCount, Num(0))]>>))

getLatencyMetrics_failed == TransportFailure("latency")

getErrorMetrics_start(service, operation) ==
    IF Missing(service)
    THEN Refuse("getErrorMetrics", [service |-> service, operation |-> operation],
                ServiceNameRequired)
    ELSE /\ Begin("getErrorMetrics", [service |-> service, operation |-> operation],
                  Get(metricsPath(service[1], operation, "errors"), Absent))
         /\ pc' = "errors"

getErrorMetrics_call ==
    /\ CanCall
    /\ \E a \in MetricsArgs : getErrorMetrics_start(a.service, a.operation)

getErrorMetrics_response ==
    /\ pc = "errors"
    /\ \E data \in ErrorAnswers :
         Finish(Resolved(data),
                Returned(<<[service |-> arg.service[1],
                            operation |-> arg.operation,
                            errorCount |-> numberOr(data.errorCount, Num(0)),
                            totalCount |-> numberOr(data.totalCount, Num(0)),
                            errorRate |-> numberOr(data.errorRate, Num(0)),
                            errorTypes |-> mapOrEmpty(data.errorTypes)]>>))

getErrorMetrics_failed == TransportFailure("errors")

(* ======================================================================= *)
(*      server processes: index.ts (McpServer, with the tracing tools)     *)
(*      and the earlier entry point built on the low-level Server          *)
(* ======================================================================= *)
(* The log-search tools modelled are the ones whose handlers differ in     *)
(* shape: search_splunk (arguments, validation), list_indexes (no          *)
(* arguments), get_index_info (arguments, not-found) and ping (no upstream *)
(* call).  The document a handler serializes with JSON.stringify is kept   *)
(* as the value it serializes.                                             *)

\* `process.env.SIGNALFX_ACCESS_TOKEN ? {...} : null`, then
\* `signalFxConfig ? new SignalFxClient(signalFxConfig) : null`
\* (mutant: the client is built whatever the environment holds)
signalFxClient_Always == TRUE
signalFxClient == TruthyString(accessToken)

AccessTokens == {Absent, Some(""), Some("token")}

SplunkTools == {"search_splunk", "list_indexes", "get_index_info", "ping"}
TracingTools == {"list_services", "get_service_operations", "search_traces",
                 "get_trace_details", "get_latency_metrics", "get_error_metrics"}
ToolNames == SplunkTools \cup TracingTools \cup {"nonexistent_tool"}

\* the names index.ts registers a handler for
RegisteredTools == SplunkTools \cup (IF signalFxClient THEN TracingTools ELSE {})

\* request.params.arguments of a call: undefined, or an object
ToolArguments(name) ==
    CASE name = "search_splunk" ->
           {Absent} \cup {Some([search_query |-> q, max_results |-> m]) :
                            q \in {Absent, Some("index=main")}, m \in {Absent, Some(5)}}
      [] name = "get_index_info" ->
           {Absent, Some([index_name |-> Some("main")])}
      [] name = "get_service_operations" ->
           {Absent} \cup {Some([service_name |-> s]) : s \in {Some(""), Some("api-gateway")}}
      [] name = "search_traces" ->
           {Absent,
            Some([service |-> Some("auth-service"), operation |-> Absent,
                  min_duration |-> Some(0), max_duration |-> Absent,
                  has_errors |-> Some(FALSE), limit |-> Some(0), offset |-> Some(10)]),
            Some([service |-> Absent, operation |-> Some("login"),
                  min_duration |-> Absent, max_duration |-> Some(5000),
                  has_errors |-> Absent, limit |-> Some(50), offset |-> Absent])}
      [] name = "get_trace_details" ->
           {Absent, Some([trace_id |-> Some("trace-456")])}
      [] name \in {"get_latency_metrics", "get_error_metrics"} ->
           {Absent} \cup {Some([service |-> Some("api-gateway"), operation |-> o]) :
                            o \in {Absent, Some("login")}}
      [] OTHER -> {Absent}

\* `(arguments || {}).field`
argument(args, field) == IF args = Absent THEN Absent ELSE args[1][field]

\* an undefined search query fails the `!searchQuery` test as "" does
queryArgument(x) == IF x = Absent THEN "" ELSE x[1]

\* an undefined value inside a template literal
templated(x) == IF x = Absent THEN "undefined" ELSE x[1]

\* what a handler hands back: a result object, or a rejected promise
\* (mutant: the caught error is reported without the error flag)
ToolReturned(v) == [settled |-> "returned", isError |-> FALSE, text |-> "", value |-> v]
ToolFailed(msg) ==
    [settled |-> "returned", isError |-> TRUE, text |-> "Error: " \o msg, value |-> <<>>]
ToolThrown(msg) == [settled |-> "thrown", isError |-> FALSE, text |-> msg, value |-> <<>>]
\* the harness found no handler under the name
NoHandler == [settled |-> "refused", isError |-> FALSE, text |-> "", value |-> <<>>]

\* a tools/call request reaches the server
callTool ==
    /\ pc = "idle"
    /\ server # "none"
    /\ \E name \in ToolNames :
         \E args \in ToolArguments(name) :
            tool' = [name |-> name, args |-> args]
    /\ pc' = "dispatch"
    /\ UNCHANGED <<configVars, op, arg, requests, responses, maxResults, currentUsername,
                   collectionStats, result, accessToken, server, toolResult>>

\* the handler is over
Settle(outcome) ==
    /\ toolResult' = outcome
    /\ pc' = "settled"
    /\ UNCHANGED <<configVars, op, arg, requests, responses, maxResults, currentUsername,
                   collectionStats, result, accessToken, server, tool>>

Dispatched(program, name) == pc = "dispatch" /\ server = program /\ tool.name = name

(* ------------------------- index.ts handlers --------------------------- *)
index_notRegistered ==
    /\ pc = "dispatch"
    /\ server = "index"
    /\ tool.name \notin RegisteredTools
    /\ Settle(NoHandler)

index_search_splunk ==
    /\ Dispatched("index", "search_splunk")
    /\ searchSplunk_start(queryArgument(argument(tool.args, "search_query")),
                          Some(countOr(argument(tool.args, "max_results"), 100)))

index_list_indexes == Dispatched("index", "list_indexes") /\ listIndexes_start

index_get_index_info ==
    /\ Dispatched("index", "get_index_info")
    /\ getIndexInfo_start(templated(argument(tool.args, "index_name")))

Version == "0.3.0"

\* (mutant: the tracing capabilities are always listed)
pingCapabilities_Always == <<"splunk", "signalfx", "traces">>
pingCapabilities ==
    IF signalFxClient THEN <<"splunk", "signalfx", "traces">> ELSE <<"splunk">>

pingResult(capabilities, now) ==
    [status |-> "ok", server |-> "splunk-mcp", version |-> Version, timestamp |-> now,
     protocol |-> "mcp", capabilities |-> capabilities]

index_ping ==
    /\ Dispatched("index", "ping")
    /\ \E now \in Clock : Settle(ToolReturned(<<pingResult(pingCapabilities, now)>>))

NotConfigured == "SignalFx client not configured"

\* the tracing handlers exist only inside `if (signalFxClient) { ... }`
TracingDispatched(name) ==
    Dispatched("index", name) /\ name \in RegisteredTools

index_list_services ==
    /\ TracingDispatched("list_services")
    /\ IF ~signalFxClient THEN Settle(ToolThrown(NotConfigured))
       ELSE listServices_start

index_get_service_operations ==
    /\ TracingDispatched("get_service_operations")
    /\ IF ~signalFxClient THEN Settle(ToolThrown(NotConfigured))
       ELSE getServiceOperations_start(argument(tool.args, "service_name"))

\* the criteria object the handler builds from the arguments
criteriaOf(args) ==
    [service |-> argument(args, "service"),
     operation |-> argument(args, "operation"),
     tags |-> Absent,
     minDuration |-> argument(args, "min_duration"),
     maxDuration |-> argument(args, "max_duration"),
     error |-> argument(args, "has_errors"),
     startTime |-> Absent,
     endTime |-> Absent,
     limit |-> Some(countOr(argument(args, "limit"), 100)),
     offset |-> Some(countOr(argument(args, "offset"), 0))]

index_search_traces ==
    /\ TracingDispatched("search_traces")
    /\ IF ~signalFxClient THEN Settle(ToolThrown(NotConfigured))
       ELSE searchTraces_start(criteriaOf(tool.args))

index_get_trace_details ==
    /\ TracingDispatched("get_trace_details")
    /\ IF ~signalFxClient THEN Settle(ToolThrown(NotConfigured))
       ELSE getTraceDetails_start(argument(tool.args, "trace_id"))

index_get_latency_metrics ==
    /\ TracingDispatched("get_latency_metrics")
    /\ IF ~signalFxClient THEN Settle(ToolThrown(NotConfigured))
       ELSE getLatencyMetrics_start(argument(tool.args, "service"),
                                    argument(tool.args, "operation"))

index_get_error_metrics ==
    /\ TracingDispatched("get_error_metrics")
    /\ IF ~signalFxClient THEN Settle(ToolThrown(NotConfigured))
       ELSE getErrorMetrics_start(argument(tool.args, "service"),
                                  argument(tool.args, "operation"))

\* the awaited client call is over: the handler returns the serialized
\* result; it has no try/catch, so a rejection leaves it as it came
index_handlerSettles ==
    /\ pc = "done"
    /\ server = "index"
    /\ Settle(IF result.status = "ok" THEN ToolReturned(result.value)
              ELSE ToolThrown(result.error))

(* --------------- CallToolRequestSchema handler (switch) ---------------- *)
LegacyTools == SplunkTools

MissingArguments == "Missing arguments"
UnknownTool(name) == "Unknown tool: " \o name

legacy_search_splunk ==
    /\ Dispatched("legacy", "search_splunk")
    /\ IF tool.args = Absent THEN Settle(ToolFailed(MissingArguments))
       ELSE searchSplunk_start(queryArgument(argument(tool.args, "search_query")),
                               Some(countOr(argument(tool.args, "max_results"), 100)))

legacy_list_indexes == Dispatched("legacy", "list_indexes") /\ listIndexes_start

legacy_get_index_info ==
    /\ Dispatched("legacy", "get_index_info")
    /\ IF tool.args = Absent THEN Settle(ToolFailed(MissingArguments))
       ELSE getIndexInfo_start(templated(argument(tool.args, "index_name")))

legacy_ping ==
    /\ Dispatched("legacy", "ping")
    /\ \E now \in Clock : Settle(ToolReturned(<<pingResult(<<"splunk">>, now)>>))

\* the default branch of the switch
legacy_unknownTool ==
    /\ pc = "dispatch"
    /\ server = "legacy"
    /\ tool.name \notin LegacyTools
    /\ Settle(ToolFailed(UnknownTool(tool.name)))

\* the awaited client call is over, inside the try block of the handler
legacy_handlerSettles ==
    /\ pc = "done"
    /\ server = "legacy"
    /\ Settle(IF result.status = "ok" THEN ToolReturned(result.value)
              ELSE ToolFailed(result.error))

\* the harness has the outcome of the call; the server waits for the next
toolCallReturns ==
    /\ pc = "settled"
    /\ pc' = "idle"
    /\ op' = "none"
    /\ arg' = ""
    /\ requests' = <<>>
    /\ responses' = <<>>
    /\ maxResults' = 0
    /\ currentUsername' = ""
    /\ collectionStats' = EmptyMap
    /\ result' = Pending
    /\ tool' = NoTool
    /\ toolResult' = NotSettled
    /\ UNCHANGED <<configVars, accessToken, server>>

(* ------------------------ SplunkClient constructor --------------------- *)
ConfigUsernames == {Absent, Some("alice")}
ConfigNames == ConfigUsernames \cup {Some("")}
ConfigPasswords == {Absent, Some(""), Some("changeme")}
ConfigTokens == {Absent, Some(""), Some("abc123")}

\* `if (config.token) headers["Authorization"] = `Bearer ${config.token}``
authorizationHeader(token) ==
    IF TruthyString(token) THEN Some("Bearer " \o token[1]) ELSE Absent

basicAuth_IgnoreToken(token, username, password) ==
    IF TruthyString(username) /\ TruthyString(password)
    THEN Some([username |-> username[1], password |-> password[1]])
    ELSE Absent

\* `auth: !config.token && config.username && config.password ? {...} : undefined`
basicAuth(token, username, password) ==
    IF ~TruthyString(token) /\ TruthyString(username) /\ TruthyString(password)
    THEN Some([username |-> username[1], password |-> password[1]])
    ELSE Absent

\* axios.create({headers, auth}) with the configuration given to `new`
constructor ==
    /\ pc = "new"
    /\ clientHeaders' = authorizationHeader(cfgToken)
    /\ clientAuth' = basicAuth(cfgToken, cfgUsername, cfgPassword)
    /\ pc' = "idle"
    /\ UNCHANGED <<cfgUsername, cfgPassword, cfgToken, op, arg, requests, responses,
                   maxResults, currentUsername, collectionStats, result, serverVars>>

\* the HTTP client is the one the constructor builds from the configuration
Constructed ==
    /\ clientHeaders = authorizationHeader(cfgToken)
    /\ clientAuth = basicAuth(cfgToken, cfgUsername, cfgPassword)

(* --------------------------- specification ----------------------------- *)

\* the settled promise is handed to the caller and the call frame is dropped
invocationReturns ==
    /\ pc = "done"
    /\ tool = NoTool
    /\ pc' = "idle"
    /\ op' = "none"
    /\ arg' = ""
    /\ requests' = <<>>
    /\ responses' = <<>>
    /\ maxResults' = 0
    /\ currentUsername' = ""
    /\ collectionStats' = EmptyMap
    /\ result' = Pending
    /\ UNCHANGED <<configVars, serverVars>>

\* the log-search client used directly: no server process around it
Init ==
    /\ cfgUsername \in ConfigUsernames
    /\ cfgPassword = Some("changeme")
    /\ cfgToken = Absent
    /\ Constructed
    /\ pc = "idle"
    /\ op = "none"
    /\ arg = ""
    /\ requests = <<>>
    /\ responses = <<>>
    /\ maxResults = 0
    /\ currentUsername = ""
    /\ collectionStats = EmptyMap
    /\ result = Pending
    /\ accessToken = Absent
    /\ server = "none"
    /\ tool = NoTool
    /\ toolResult = NotSettled

Next ==
    \/ searchSplunk_call
    \/ searchSplunk_jobCreated
    \/ searchSplunk_jobFailed
    \/ searchSplunk_results
    \/ searchSplunk_resultsFailed
    \/ listIndexes_call
    \/ listIndexes_response
    \/ listIndexes_failed
    \/ getIndexInfo_call
    \/ getIndexInfo_response
    \/ getIndexInfo_failed
    \/ listSavedSearches_call
    \/ listSavedSearches_response
    \/ listSavedSearches_failed
    \/ getCurrentUser_call
    \/ getCurrentUser_context
    \/ getCurrentUser_contextFailed
    \/ getCurrentUser_user
    \/ getCurrentUser_userFailed
    \/ listUsers_call
    \/ listUsers_response
    \/ listUsers_failed
    \/ listKVStoreCollections_call
    \/ listKVStoreCollections_stats
    \/ listKVStoreCollections_statsFailed
    \/ listKVStoreCollections_config
    \/ listKVStoreCollections_configFailed
    \/ healthCheck_call
    \/ healthCheck_response
    \/ healthCheck_failed
    \/ getIndexesAndSourcetypes_call
    \/ getIndexesAndSourcetypes_indexes
    \/ getIndexesAndSourcetypes_indexesFailed
    \/ getIndexesAndSourcetypes_jobCreated
    \/ getIndexesAndSourcetypes_jobFailed
    \/ getIndexesAndSourcetypes_results
    \/ getIndexesAndSourcetypes_resultsFailed
    \/ invocationReturns

Spec == Init /\ [][Next]_vars

\* the awaited upstream request fails. Each of these steps is enabled exactly
\* while the request it belongs to is unanswered, and a response disables it
RequestFails ==
    \/ searchSplunk_jobFailed
    \/ searchSplunk_resultsFailed
    \/ listIndexes_failed
    \/ getIndexInfo_failed
    \/ listSavedSearches_failed
    \/ getCurrentUser_contextFailed
    \/ getCurrentUser_userFailed
    \/ listUsers_failed
    \/ listKVStoreCollections_statsFailed
    \/ listKVStoreCollections_configFailed
    \/ healthCheck_failed
    \/ getIndexesAndSourcetypes_indexesFailed
    \/ getIndexesAndSourcetypes_jobFailed
    \/ getIndexesAndSourcetypes_resultsFailed

\* the client under the assumption that no upstream request stays unanswered
\* for ever: weak fairness on RequestFails rules out exactly the behaviours in
\* which a request waits for ever, since the wait ends with a response (which
\* disables the failure) or with the failure. Callers are free never to call
FairSpec == Init /\ [][Next]_vars /\ WF_vars(RequestFails)

\* the tracing client used directly; it exists only with an access token
TracingInit ==
    /\ cfgUsername = Absent
    /\ cfgPassword = Absent
    /\ cfgToken = Absent
    /\ Constructed
    /\ pc = "idle"
    /\ op = "none"
    /\ arg = ""
    /\ requests = <<>>
    /\ responses = <<>>
    /\ maxResults = 0
    /\ currentUsername = ""
    /\ collectionStats = EmptyMap
    /\ result = Pending
    /\ accessToken = Some("token")
    /\ server = "none"
    /\ tool = NoTool
    /\ toolResult = NotSettled

TracingNext ==
    \/ listServices_call
    \/ listServices_response
    \/ listServices_failed
    \/ getServiceOperations_call
    \/ getServiceOperations_response
    \/ getServiceOperations_failed
    \/ searchTraces_call
    \/ searchTraces_response
    \/ searchTraces_failed
    \/ getTraceDetails_call
    \/ getTraceDetails_response
    \/ getTraceDetails_failed
    \/ getLatencyMetrics_call
    \/ getLatencyMetrics_response
    \/ getLatencyMetrics_failed
    \/ getErrorMetrics_call
    \/ getErrorMetrics_response
    \/ getErrorMetrics_failed
    \/ invocationReturns

TracingSpec == TracingInit /\ [][TracingNext]_vars

\* a server process after start-up, whatever the environment holds
ServerInit ==
    /\ cfgUsername = Absent
    /\ cfgPassword = Absent
    /\ cfgToken = Absent
    /\ Constructed
    /\ pc = "idle"
    /\ op = "none"
    /\ arg = ""
    /\ requests = <<>>
    /\ responses = <<>>
    /\ maxResults = 0
    /\ currentUsername = ""
    /\ collectionStats = EmptyMap
    /\ result = Pending
    /\ accessToken \in AccessTokens
    /\ server \in {"index", "legacy"}
    /\ tool = NoTool
    /\ toolResult = NotSettled

ServerNext ==
    \/ callTool
    \/ index_notRegistered
    \/ index_search_splunk
    \/ index_list_indexes
    \/ index_get_index_info
    \/ index_ping
    \/ index_list_services
    \/ index_get_service_operations
    \/ index_search_traces
    \/ index_get_trace_details
    \/ index_get_latency_metrics
    \/ index_get_error_metrics
    \/ index_handlerSettles
    \/ legacy_search_splunk
    \/ legacy_list_indexes
    \/ legacy_get_index_info
    \/ legacy_ping
    \/ legacy_unknownTool
    \/ legacy_handlerSettles
    \/ toolCallReturns
    \/ searchSplunk_jobCreated
    \/ searchSplunk_jobFailed
    \/ searchSplunk_results
    \/ searchSplunk_resultsFailed
    \/ listIndexes_response
    \/ listIndexes_failed
    \/ getIndexInfo_response
    \/ getIndexInfo_failed
    \/ listServices_response
    \/ listServices_failed
    \/ getServiceOperations_response
    \/ getServiceOperations_failed
    \/ searchTraces_response
    \/ searchTraces_failed
    \/ getTraceDetails_response
    \/ getTraceDetails_failed
    \/ getLatencyMetrics_response
    \/ getLatencyMetrics_failed
    \/ getErrorMetrics_response
    \/ getErrorMetrics_failed

ServerSpec == ServerInit /\ [][ServerNext]_vars

\* a client built from any configuration, then used for its username lookup
\* and its health check
ClientInit ==
    /\ cfgUsername \in ConfigNames
    /\ cfgPassword \in ConfigPasswords
    /\ cfgToken \in ConfigTokens
    /\ clientHeaders = Absent
    /\ clientAuth = Absent
    /\ pc = "new"
    /\ op = "none"
    /\ arg = ""
    /\ requests = <<>>
    /\ responses = <<>>
    /\ maxResults = 0
    /\ currentUsername = ""
    /\ collectionStats = EmptyMap
    /\ result = Pending
    /\ accessToken = Absent
    /\ server = "none"
    /\ tool = NoTool
    /\ toolResult = NotSettled

ClientNext ==
    \/ constructor
    \/ getCurrentUser_call
    \/ getCurrentUser_context
    \/ getCurrentUser_contextFailed
    \/ getCurrentUser_user
    \/ getCurrentUser_userFailed
    \/ healthCheck_call
    \/ healthCheck_response
    \/ healthCheck_failed
    \/ invocationReturns

ClientSpec == ClientInit /\ [][ClientNext]_vars

(* ======================================================================= *)
(*                              properties                                 *)
(* ======================================================================= *)
LastResponse == responses[Len(responses)]

\* an envelope whose `entry` is missing or an empty array
EntryMissingOrEmpty(data) == data = Absent \/ Len(data[1]) = 0

HasPrefix(key, prefix) == Len(key) >= Len(prefix) /\ Sub(key, 1, Len(prefix)) = prefix
Suffix(key, prefix) == Sub(key, Len(prefix) + 1, Len(key))
Range(seq) == {seq[i] : i \in 1..Len(seq)}

\* getCurrentUser: the current-context lookup answered with a username
ContextGaveUsername ==
    /\ responses[1].ok
    /\ responses[1].data # Absent
    /\ Len(responses[1].data[1]) > 0
    /\ responses[1].data[1][1].content # Absent
    /\ responses[1].data[1][1].content[1].username \notin {Absent, Some("")}

\* getCurrentUser: the username the claims expect once the lookup is over
ExpectedUsername ==
    IF ContextGaveUsername THEN responses[1].data[1][1].content[1].username[1]
    ELSE IF cfgUsername = Absent THEN "admin"
    ELSE cfgUsername[1]

(* ------------------------------- C1 ------------------------------------ *)
\* C1: searchSplunk called with the empty string fails with the validation
\* error "Search query cannot be empty" and issues no upstream request.
C1_EmptyQueryRejected ==
    (op = "searchSplunk" /\ arg = "")
        => /\ pc = "done"
           /\ result = Thrown("Search query cannot be empty")
           /\ requests = <<>>

C1_Witness ==
    op = "searchSplunk" /\ arg = "" /\ pc = "done" /\ result.status = "error"

(* ------------------------------- C2 ------------------------------------ *)
\* position of the first character of s that is not whitespace
FirstInk(s) == Min({i \in 1..Len(s) : ~IsWhitespace(CharAt(s, i))} \cup {Len(s) + 1})

\* the text after the leading whitespace starts neither with `|` nor,
\* whatever the case, with the word `search`
NeedsPrefix(s) ==
    /\ CharAt(s, FirstInk(s)) # "|"
    /\ toLowerCase(Sub(s, FirstInk(s), FirstInk(s) + 5)) # "search"

SubmittedQuery == requests[1].body.search

\* C2 as claimed: every non-empty query is submitted as its trimmed text,
\* with `search ` prepended exactly when the prefix is needed.
C2_SubmitsTrimmedQuery ==
    (op = "searchSplunk" /\ arg # "")
        => /\ requests # <<>>
           /\ SubmittedQuery = IF NeedsPrefix(arg) THEN "search " \o trim(arg) ELSE trim(arg)

\* C2 (amended): every non-empty query is submitted as given, not trimmed,
\* with `search ` prepended exactly when the trimmed text starts neither with
\* `|` nor, case-insensitively, with `search`; "index=main" is submitted as
\* "search index=main" and "| stats count" unchanged.
C2_QueryPrefix ==
    (op = "searchSplunk" /\ arg # "")
        => /\ requests # <<>>
           /\ requests[1].method = "POST"
           /\ SubmittedQuery \in {arg, "search " \o arg}
           /\ (SubmittedQuery = "search " \o arg) <=> NeedsPrefix(arg)
           /\ (arg = "index=main" => SubmittedQuery = "search index=main")
           /\ (arg = "| stats count" => SubmittedQuery = "| stats count")

C2_Witness ==
    /\ op = "searchSplunk"
    /\ arg = " index=main"
    /\ requests # <<>>
    /\ requests[1].body.search = "search  index=main"

(* ------------------------------- C3 ------------------------------------ *)
\* a <sid> element with non-empty text opens at i and closes at j
SidElement(x, i, j) ==
    /\ Sub(x, i, i + 4) = "<sid>"
    /\ Sub(x, j, j + 5) = "</sid>"
    /\ j > i + 5
    /\ \A k \in (i + 5)..(j - 1) : CharAt(x, k) # "<"

SidOpenings(x) == {i \in 1..Len(x) : Sub(x, i, i + 4) = "<sid>"}
SidClosings(x) == {j \in 1..Len(x) : Sub(x, j, j + 5) = "</sid>"}
SidElements(x) == {e \in SidOpenings(x) \X SidClosings(x) : SidElement(x, e[1], e[2])}

FirstSid(x) ==
    LET e == CHOOSE f \in SidElements(x) : \A g \in SidElements(x) : f[1] <= g[1]
    IN  Sub(x, e[1] + 5, e[2] - 1)

\* C3: the job id in the results path is the content of the first
\* <sid>...</sid> element of the job-creation body; without such an element
\* (an empty <sid></sid> included) the call fails with the extraction error
\* and no results request is issued.
C3_SidExtraction ==
    (op = "searchSplunk" /\ Len(responses) >= 1 /\ responses[1].ok)
        => LET x == responses[1].data
           IN  IF SidElements(x) # {}
               THEN /\ Len(requests) = 2
                    /\ requests[2].method = "GET"
                    /\ requests[2].path = "/services/search/jobs/" \o FirstSid(x) \o "/results"
               ELSE /\ pc = "done"
                    /\ result = Thrown("Failed to extract job SID from response")
                    /\ Len(requests) = 1

C3_Witness ==
    /\ op = "searchSplunk"
    /\ pc = "results"
    /\ responses = <<Resolved("<r><sid>7</sid>")>>
    /\ requests[2].path = "/services/search/jobs/7/results"

(* ------------------------------- C4 ------------------------------------ *)
\* C4: fetching a single named resource, a missing or empty `entry` gives a
\* not-found failure naming the requested resource ("Index not found:
\* <name>", "User not found: <resolved username>") and no record.
C4_NotFoundNamesResource ==
    /\ (op = "getIndexInfo" /\ pc = "done" /\ LastResponse.ok
            /\ EntryMissingOrEmpty(LastResponse.data))
          => /\ result.status = "error"
             /\ result.error = "Index not found: " \o arg
             /\ result.value = <<>>
             /\ requests[1].path = "/services/data/indexes/" \o arg
    /\ (op = "getCurrentUser" /\ pc = "done" /\ LastResponse.ok
            /\ EntryMissingOrEmpty(LastResponse.data))
          => /\ result.status = "error"
             /\ result.value = <<>>
             /\ requests[2].path = "/services/authentication/users/" \o ExpectedUsername
             /\ result.error = "User not found: " \o ExpectedUsername

C4_Witness ==
    /\ op = "getIndexInfo"
    /\ arg = "nonexistent"
    /\ pc = "done"
    /\ responses = <<Resolved(Some(<<>>))>>
    /\ result.error = "Index not found: nonexistent"

(* ------------------------------- C5 ------------------------------------ *)
ListingOps ==
    {"listIndexes", "listSavedSearches", "listUsers", "listKVStoreCollections", "healthCheck"}

\* C5: for every directory-listing operation, an envelope whose `entry` is
\* missing or empty yields an empty result sequence and never an error.
C5_EmptyListingIsEmptyResult ==
    (op \in ListingOps /\ pc = "done" /\ LastResponse.ok
        /\ EntryMissingOrEmpty(LastResponse.data))
        => result = Returned(<<>>)

(* ------------------------------- C6 ------------------------------------ *)
\* the three-case rule as claimed: any present scalar is wrapped
ThreeCase(raw) ==
    CASE raw.tag = "array" -> raw.val
      [] raw.tag = "scalar" -> <<raw.val[1]>>
      [] OTHER -> <<>>

\* the three-case rule of the code: an empty-string scalar counts as absent
ThreeCaseTruthy(raw) ==
    CASE raw.tag = "array" -> raw.val
      [] raw.tag = "scalar" /\ raw.val[1] # "" -> <<raw.val[1]>>
      [] OTHER -> <<>>

\* listUsers: the upstream entries that carry a content, in upstream order
UsersWithContent ==
    SelectSeq(IF LastResponse.data = Absent THEN <<>> ELSE LastResponse.data[1],
              LAMBDA e : e.content # Absent)

\* listUsers is over, answered with a listing whose entries are objects
ListUsersReturned ==
    /\ op = "listUsers"
    /\ pc = "done"
    /\ LastResponse.ok
    /\ \A i \in 1..Len(entryOrEmpty(LastResponse.data)) :
          entryOrEmpty(LastResponse.data)[i] # NullEntry

C7_SameRuleAsListUsers ==
    (op = "getCurrentUser" /\ pc = "done" /\ result.status = "ok")
        => LET content == LastResponse.data[1][1].content[1]
           IN  /\ result.value[1].roles = listUsers_roles(content)
               /\ result.value[1].capabilities = listUsers_capabilities(content)

(* ------------------------------- C8 ------------------------------------ *)
KVReturned == op = "listKVStoreCollections" /\ pc = "done" /\ LastResponse.ok

KVEntries == IF LastResponse.data = Absent THEN <<>> ELSE LastResponse.data[1]
KVKeysOf(entry) == IF entry.content.keys = Absent THEN <<>> ELSE entry.content.keys[1]

\* C8: `fields` holds exactly the suffixes of the keys beginning with
\* `field.`, `accelerated_fields` exactly the suffixes of the keys beginning
\* with `accelerated_field.`, any other key feeds neither and no key feeds
\* both; the example content gives fields = id, name and
\* accelerated_fields = name.
C8_FieldClassification ==
    KVReturned
        => /\ Len(result.value) = Len(KVEntries)
           /\ \A i \in 1..Len(KVEntries) :
                LET keys == KVKeysOf(KVEntries[i])
                    plain == {k \in Range(keys) : HasPrefix(k, "field.")}
                    accel == {k \in Range(keys) : HasPrefix(k, "accelerated_field.")}
                    rec == result.value[i]
                IN  /\ Range(rec.fields) = {Suffix(k, "field.") : k \in plain}
                    /\ Range(rec.accelerated_fields)
                         = {Suffix(k, "accelerated_field.") : k \in accel}
                    /\ Len(rec.fields) = Cardinality(plain)
                    /\ Len(rec.accelerated_fields) = Cardinality(accel)
                    /\ plain \cap accel = {}
                    /\ (keys = <<"field.id", "field.name", "accelerated_field.name">>
                          => rec.fields = <<"id", "name">>
                             /\ rec.accelerated_fields = <<"name">>)

C8_Witness ==
    /\ KVReturned
    /\ Len(KVEntries) = 1
    /\ KVKeysOf(KVEntries[1]) = <<"my_field.z", "accelerated_field.name", "field.field.x">>
    /\ result.value[1].fields = <<"field.x">>
    /\ result.value[1].accelerated_fields = <<"name">>

(* ------------------------------- C9 ------------------------------------ *)
ConfigRequest == Get("/servicesNS/-/-/storage/collections/config", JsonParams)

\* the items of a successful stats answer, <<>> when it carries none
StatsItems ==
    LET data == responses[1].data
    IN  IF data = Absent \/ Len(data[1]) = 0 THEN <<>>
        ELSE IF data[1][1].content = Absent \/ data[1][1].content[1].data = Absent THEN <<>>
        ELSE data[1][1].content[1].data[1]

\* the positions of the stats items that carry a usable ns and a count
StoredAt(items) ==
    {i \in 1..Len(items) :
        items[i].parses /\ items[i].ns \notin {Absent, Some("")} /\ items[i].count # Absent}

\* the stats map holds, per ns, the count of the last usable item
StatsMapMatches(items) ==
    /\ DOMAIN collectionStats = {items[i].ns[1] : i \in StoredAt(items)}
    /\ \A k \in DOMAIN collectionStats :
         collectionStats[k]
           = items[Max({i \in StoredAt(items) : items[i].ns[1] = k})].count[1]

\* C9: the stats sub-fetch is best-effort: when it fails the config request
\* is still issued and every collection is returned with record_count 0;
\* otherwise record_count is the count stored under `<app>.<name>` in the
\* stats map, 0 when the key is missing.
C9_StatsBestEffort ==
    (op = "listKVStoreCollections" /\ Len(responses) >= 1)
        => /\ Len(requests) = 2
           /\ requests[2] = ConfigRequest
           /\ IF responses[1].ok THEN StatsMapMatches(StatsItems)
              ELSE collectionStats = EmptyMap
           /\ KVReturned
                => /\ result.status = "ok"
                   /\ Len(result.value) = Len(KVEntries)
                   /\ \A i \in 1..Len(KVEntries) :
                        LET rec == result.value[i]
                            key == rec.app \o "." \o rec.name
                        IN  /\ rec.name = KVEntries[i].name
                            /\ rec.app = IF KVEntries[i].content.app = Absent
                                         THEN "unknown"
                                         ELSE KVEntries[i].content.app[1]
                            /\ rec.record_count
                                 = IF responses[1].ok /\ key \in DOMAIN collectionStats
                                   THEN collectionStats[key]
                                   ELSE 0

C9_Witness ==
    /\ KVReturned
    /\ ~responses[1].ok
    /\ Len(result.value) = 2
    /\ result.value[1].record_count = 0
    /\ result.value[2].record_count = 0

(* ------------------------------- C10 ----------------------------------- *)
\* C10: the current-context lookup is best-effort: when it fails or gives no
\* username the user request is still issued for the configured username
\* ("admin" when none is configured) and the returned record carries it;
\* when the lookup gives a username, that one is requested and returned.
C10_ContextBestEffort ==
    (op = "getCurrentUser" /\ Len(responses) >= 1)
        => /\ Len(requests) = 2
           /\ requests[2] = Get("/services/authentication/users/" \o ExpectedUsername,
                                JsonParams)
           /\ (pc = "done" /\ result.status = "ok")
                => result.value[1].username = ExpectedUsername

C10_Witness ==
    /\ op = "getCurrentUser"
    /\ pc = "done"
    /\ cfgUsername = Absent
    /\ ~responses[1].ok
    /\ result.status = "ok"
    /\ result.value[1].username = "admin"

(* ----------------------------------------------------------------------- *)
(*                       tracing client properties                         *)
(* ----------------------------------------------------------------------- *)
\* getTraceDetails has returned a trace
TraceReturned == op = "getTraceDetails" /\ result.status = "ok"
ReturnedTrace == result.value[1]
\* the raw spans of the payload the trace was parsed from
AnsweredSpans == entryOrEmpty(LastResponse.data.spans)

\* the start time and the duration of every span of the trace are numbers
TimedSpans(trace) ==
    \A i \in 1..Len(trace.spans) :
        trace.spans[i].startTime.kind = "number" /\ trace.spans[i].duration.kind = "number"

\* position of the first span of the trace that runs on the service
FirstSeen(trace, service) ==
    Min({i \in 1..Len(trace.spans) : trace.spans[i].serviceName = service})

\* C11: for any non-empty span sequence the parsed trace has one normalized
\* span per raw span; `services` lists each span service name exactly once,
\* in the order in which the names first occur among the spans;
\* `operationName` is the operation name of the first span; and, the span
\* timings being numbers, `startTime` is the least span start time and
\* `duration` is the greatest span end (start + duration) minus that start.
C11_TraceAggregates ==
    (TraceReturned /\ AnsweredSpans # <<>>) =>
        LET trace == ReturnedTrace
            n == Len(trace.spans)
            starts == {trace.spans[i].startTime.n : i \in 1..n}
            ends == {trace.spans[i].startTime.n + trace.spans[i].duration.n : i \in 1..n}
        IN  /\ n = Len(AnsweredSpans)
            /\ \A i \in 1..n : trace.spans[i].serviceName = AnsweredSpans[i].serviceName
            /\ Range(trace.services) = {trace.spans[i].serviceName : i \in 1..n}
            /\ \A i, j \in 1..Len(trace.services) :
                  i < j => FirstSeen(trace, trace.services[i]) < FirstSeen(trace, trace.services[j])
            /\ trace.operationName = Some(AnsweredSpans[1].operationName)
            /\ TimedSpans(trace) =>
                  /\ trace.startTime = Num(Min(starts))
                  /\ trace.duration = Num(Max(ends) - Min(starts))

\* a trace of two spans on one service, the later span first, was parsed
C11_Witness ==
    /\ TraceReturned
    /\ AnsweredSpans = <<GatewaySpan, BareSpan>>
    /\ ReturnedTrace.services = <<"api-gateway">>
    /\ ReturnedTrace.startTime = Num(0)
    /\ ReturnedTrace.duration = Num(1000150)
    /\ ReturnedTrace.operationName = Some("http.request")

\* the trace of the two spans (1000000, 150) and (1000010, 50) was parsed
TwoSpanTrace == TraceReturned /\ AnsweredSpans = <<GatewaySpan, UserServiceSpan>>

\* C12 as stated: the two-span trace has both service names and duration 60
C12_DurationSixty ==
    TwoSpanTrace =>
        /\ {"api-gateway", "user-service"} \subseteq Range(ReturnedTrace.services)
        /\ ReturnedTrace.duration = Num(60)

\* C12: two spans with (startTime, duration) = (1000000, 150) and
\* (1000010, 50) on different services give a trace whose `services` holds
\* both names and whose `duration` is 150: the latest span end is
\* 1000000 + 150, the earliest start is 1000000.
C12_TwoSpanDuration ==
    TwoSpanTrace =>
        /\ {"api-gateway", "user-service"} \subseteq Range(ReturnedTrace.services)
        /\ ReturnedTrace.startTime = Num(1000000)
        /\ ReturnedTrace.duration = Num(150)

C12_Witness ==
    /\ TwoSpanTrace
    /\ ReturnedTrace.services = <<"api-gateway", "user-service">>
    /\ ReturnedTrace.duration = Num(150)

(* ------------------------------- C13 ----------------------------------- *)
\* the body of the search request issued by searchTraces
SearchIssued == op = "searchTraces" /\ Len(requests) = 1
SearchBody == requests[1].body

\* C13 as stated: each of service, operation, tags, minDuration,
\* maxDuration, error, startTime and endTime is in the outgoing body exactly
\* when the caller provided it, falsy values (error = false, minDuration = 0,
\* service = "") counting as provided, and with the value provided.
C13_ProvidedIffIncluded ==
    SearchIssued =>
        /\ SearchBody.service = arg.service
        /\ SearchBody.operation = arg.operation
        /\ SearchBody.tags = arg.tags
        /\ SearchBody.minDuration = arg.minDuration
        /\ SearchBody.maxDuration = arg.maxDuration
        /\ SearchBody.error = arg.error
        /\ SearchBody.startTime = arg.startTime
        /\ SearchBody.endTime = arg.endTime

(* ------------------------------- C14 ----------------------------------- *)
SearchReturned == op = "searchTraces" /\ result.status = "ok"

\* C14 as stated: limit and offset are always in the body, 100 and 0 when
\* not provided, and the caller's values whenever the caller provides them,
\* in the body and in the returned result alike.
C14_CallerValuesCarried ==
    SearchIssued =>
        LET limit == IF arg.limit = Absent THEN 100 ELSE arg.limit[1]
            offset == IF arg.offset = Absent THEN 0 ELSE arg.offset[1]
        IN  /\ SearchBody.limit = limit
            /\ SearchBody.offset = offset
            /\ SearchReturned => /\ result.value[1].limit = limit
                                 /\ result.value[1].offset = offset

\* C14: the body of a trace search always carries `limit` and `offset`.
\* `limit` is 100 when the caller gives none or gives 0, and the caller's
\* value otherwise; `offset` is 0 when the caller gives none and the
\* caller's value otherwise; the returned result carries the same two values
\* as the body.
C14_LimitAndOffset ==
    SearchIssued =>
        LET limit == IF arg.limit \in {Absent, Some(0)} THEN 100 ELSE arg.limit[1]
            offset == IF arg.offset = Absent THEN 0 ELSE arg.offset[1]
        IN  /\ SearchBody.limit = limit
            /\ SearchBody.offset = offset
            /\ SearchReturned => /\ result.value[1].limit = limit
                                 /\ result.value[1].offset = offset

\* a search with the caller's own limit and offset has returned
C14_Witness ==
    /\ SearchReturned
    /\ arg.limit = Some(50)
    /\ arg.offset = Some(10)
    /\ SearchBody.limit = 50
    /\ result.value[1].limit = 50
    /\ result.value[1].offset = 10

(* ------------------------------- C15 ----------------------------------- *)
MetricsOps == {"getLatencyMetrics", "getErrorMetrics"}
\* a metrics fetcher was called with a service name
MetricsCalled == op \in MetricsOps /\ ~(arg.service = Absent \/ arg.service[1] = "")
MetricsReturned == MetricsCalled /\ result.status = "ok"
OperationGiven == arg.operation # Absent /\ arg.operation[1] # ""
MetricsLeaf == IF op = "getLatencyMetrics" THEN "latency" ELSE "errors"

\* what a numeric field of the payload must come out as: 0 when absent, the
\* number itself when present
NumberKept(raw, out) ==
    /\ raw.kind \in {"undefined", "null"} => out = Num(0)
    /\ raw.kind = "number" => out = raw

\* C15: a metrics fetcher called with a service issues exactly one GET, on
\* /services/<service>/operations/<operation>/<leaf> when an operation is
\* given and on /services/<service>/<leaf> otherwise; in the record it
\* returns every numeric field absent upstream is 0 and every number present
\* is unchanged, and an absent error-type breakdown is the empty mapping.
C15_MetricsFetch ==
    MetricsCalled =>
        /\ Len(requests) = 1
        /\ requests[1].method = "GET"
        /\ requests[1].path =
              IF OperationGiven
              THEN "/services/" \o arg.service[1] \o "/operations/" \o arg.operation[1]
                     \o "/" \o MetricsLeaf
              ELSE "/services/" \o arg.service[1] \o "/" \o MetricsLeaf
        /\ (MetricsReturned /\ op = "getLatencyMetrics") =>
              \A f \in LatencyFields : NumberKept(LastResponse.data[f], result.value[1][f])
        /\ (MetricsReturned /\ op = "getErrorMetrics") =>
              /\ \A f \in {"errorCount", "totalCount", "errorRate"} :
                    NumberKept(LastResponse.data[f], result.value[1][f])
              /\ result.value[1].errorTypes =
                    IF LastResponse.data.errorTypes = Absent THEN EmptyMap
                    ELSE LastResponse.data.errorTypes[1]

\* operation-scoped error metrics came back from an empty payload
C15_Witness ==
    /\ MetricsReturned
    /\ op = "getErrorMetrics"
    /\ arg.operation = Some("login")
    /\ requests = <<Get("/services/api-gateway/operations/login/errors", Absent)>>
    /\ LastResponse.data.errorTypes = Absent
    /\ result.value[1].errorCount = Num(0)
    /\ result.value[1].errorTypes = EmptyMap

(* ------------------------------- C19 ----------------------------------- *)
\* the required argument of the invocation, for the four checked operations
RequiredArgument ==
    IF op \in MetricsOps THEN arg.service ELSE arg
RequiredMessage ==
    IF op = "getTraceDetails" THEN "Trace ID is required" ELSE "Service name is required"

\* C19: getServiceOperations, getTraceDetails, getLatencyMetrics and
\* getErrorMetrics called with an empty (or missing) required argument fail
\* with "Service name is required" / "Trace ID is required" and issue no
\* upstream request.
C19_ArgumentsChecked ==
    (/\ op \in {"getServiceOperations", "getTraceDetails"} \cup MetricsOps
     /\ (RequiredArgument = Absent \/ RequiredArgument[1] = ""))
        => /\ pc = "done"
           /\ requests = <<>>
           /\ responses = <<>>
           /\ result.status = "error"
           /\ result.error = RequiredMessage

\* latency metrics were asked for the empty service name
C19_Witness ==
    /\ op = "getLatencyMetrics"
    /\ arg.service = Some("")
    /\ requests = <<>>
    /\ result = Thrown("Service name is required")

(* ----------------------------------------------------------------------- *)
(*                          server properties                              *)
(* ----------------------------------------------------------------------- *)
\* the environment of the process holds a tracing access token
TokenConfigured == accessToken # Absent /\ accessToken[1] # ""

\* the tool call is over
ToolSettled == pc = "settled"

(* ------------------------------- C16 ----------------------------------- *)
\* C16 as stated: no error leaves a tool handler; a handler whose client
\* call failed (validation, extraction, not-found, transport), or that was
\* called under an unknown name or without its arguments, returns a result
\* with the error flag set and the text "Error: " followed by the original
\* message.
C16_ErrorsCaughtAtBoundary ==
    /\ toolResult.settled # "thrown"
    /\ (ToolSettled /\ result.status = "error") =>
          /\ toolResult.settled = "returned"
          /\ toolResult.isError
          /\ toolResult.text = "Error: " \o result.error

(* ------------------------------- C17 ----------------------------------- *)
PingSettled == server = "index" /\ tool.name = "ping" /\ ToolSettled

\* C17: the capability list returned by the ping tool of index.ts always
\* contains "splunk", and contains "signalfx" and "traces" exactly when the
\* tracing access token is configured.
C17_PingCapabilities ==
    PingSettled =>
        /\ toolResult.settled = "returned"
        /\ ~toolResult.isError
        /\ LET capabilities == Range(toolResult.value[1].capabilities)
           IN  /\ "splunk" \in capabilities
               /\ "signalfx" \in capabilities <=> TokenConfigured
               /\ "traces" \in capabilities <=> TokenConfigured

\* ping answered on a server with the token set
C17_Witness ==
    /\ PingSettled
    /\ accessToken = Some("token")
    /\ toolResult.value[1].capabilities = <<"splunk", "signalfx", "traces">>

(* ------------------------------- C18 ----------------------------------- *)
TracingOps == {"listServices", "getServiceOperations", "searchTraces",
               "getTraceDetails", "getLatencyMetrics", "getErrorMetrics"}

\* C18: on index.ts a call of one of the six tracing tools reaches a handler
\* exactly when the tracing access token is configured; without the token no
\* method of the tracing client is ever invoked, so that no request goes to
\* the tracing upstream.
C18_TracingToolsGated ==
    server = "index" =>
        /\ (ToolSettled /\ tool.name \in TracingTools) =>
              (toolResult.settled = "refused" <=> ~TokenConfigured)
        /\ ~TokenConfigured => op \notin TracingOps
        /\ op \in TracingOps => tool.name \in TracingTools

\* with the token set, get_trace_details fetched and returned a trace
C18_Witness ==
    /\ server = "index"
    /\ ToolSettled
    /\ tool.name = "get_trace_details"
    /\ accessToken = Some("token")
    /\ requests = <<Get("/traces/trace-456", Absent)>>
    /\ toolResult.settled = "returned"
    /\ ~toolResult.isError

(* ------------------------------- C20 ----------------------------------- *)
\* an upstream counter string that is a decimal number
IsDecimal(x) == x # Absent /\ x[1] # "" /\ \A i \in 1..Len(x[1]) : IsDigit(CharAt(x[1], i))

\* a string-typed counter: "0" unless upstream sent a decimal string
CounterDefaulted(raw, out) == out = IF IsDecimal(raw) THEN raw[1] ELSE "0"

\* a numeric field: the number upstream sent, 0 for anything else
NumberDefaulted(raw, out) == out = IF raw.kind = "number" THEN raw ELSE Num(0)

IndexCounters ==
    {"totalEventCount", "currentDBSizeMB", "maxTotalDataSizeMB", "minTime", "maxTime"}

\* C20 as stated: every numeric or counter field of a normalized record is
\* 0 ("0" for the string-typed index counters) whenever the upstream field is
\* absent or not numeric, never undefined or null, and an index counter that
\* is present comes back as the decimal string upstream sent.
C20_NumericDefaults ==
    /\ (op = "getIndexInfo" /\ result.status = "ok") =>
          \A f \in IndexCounters :
              CounterDefaulted(LastResponse.data[1][1].content[1][f], result.value[1][f])
    /\ (op = "getTraceDetails" /\ result.status = "ok") =>
          LET raw == entryOrEmpty(LastResponse.data.spans)
              out == result.value[1].spans
          IN  \A i \in 1..Len(raw) :
                /\ NumberDefaulted(raw[i].startTime, out[i].startTime)
                /\ NumberDefaulted(raw[i].duration, out[i].duration)
                /\ raw[i].logs # Absent =>
                      \A j \in 1..Len(raw[i].logs[1]) :
                          NumberDefaulted(raw[i].logs[1][j].timestamp,
                                          out[i].logs[1][j].timestamp)
    /\ (op = "getLatencyMetrics" /\ result.status = "ok") =>
          \A f \in LatencyFields : NumberDefaulted(LastResponse.data[f], result.value[1][f])
    /\ (op = "getErrorMetrics" /\ result.status = "ok") =>
          \A f \in {"errorCount", "totalCount", "errorRate"} :
              NumberDefaulted(LastResponse.data[f], result.value[1][f])

(* ----------------------------------------------------------------------- *)
(*                      client construction properties                     *)
(* ----------------------------------------------------------------------- *)
\* the constructor has run
ClientBuilt == pc # "new"

(* ------------------------------- C21 ----------------------------------- *)
\* C21: once the client is built, a configured (non-empty) token makes the
\* client carry "Bearer <token>" and no basic-auth credentials, whatever
\* username and password the configuration holds; basic-auth credentials
\* are attached exactly when no token is set and both username and password
\* are present, and then they are the configured ones; the bearer header and
\* the basic-auth credentials are never both present.
C21_BearerOrBasic ==
    ClientBuilt =>
        /\ TruthyString(cfgToken)
              => /\ clientHeaders = Some("Bearer " \o cfgToken[1])
                 /\ clientAuth = Absent
        /\ clientAuth # Absent
              <=> (~TruthyString(cfgToken) /\ TruthyString(cfgUsername)
                      /\ TruthyString(cfgPassword))
        /\ clientAuth # Absent
              => clientAuth[1] = [username |-> cfgUsername[1], password |-> cfgPassword[1]]
        /\ ~TruthyString(cfgToken) => clientHeaders = Absent
        /\ ~(clientHeaders # Absent /\ clientAuth # Absent)

\* a client built from a token together with a username and a password, in use
C21_Witness ==
    /\ ClientBuilt
    /\ TruthyString(cfgToken)
    /\ TruthyString(cfgUsername)
    /\ TruthyString(cfgPassword)
    /\ clientHeaders = Some("Bearer abc123")
    /\ clientAuth = Absent
    /\ op = "healthCheck"
    /\ pc = "done"

(* ----------------------------------------------------------------------- *)
(*                     log-search client: further properties               *)
(* ----------------------------------------------------------------------- *)
(* ------------------------------- C22 ----------------------------------- *)
\* C22: searchSplunk called with a blank query (nothing but whitespace)
\* fails with the validation error of the empty query and issues no
\* upstream request.
C22_BlankQueryRejected ==
    (op = "searchSplunk" /\ arg # "" /\ trim(arg) = "")
        => /\ pc = "done"
           /\ result = Thrown(EmptyQueryError)
           /\ requests = <<>>

(* ------------------------------- C23 ----------------------------------- *)
\* the requests of the invocation made with the given method
RequestsBy(method) == {i \in 1..Len(requests) : requests[i].method = method}

\* C23: an invocation of searchSplunk issues the job-creation POST at most
\* once and the results GET at most once; the GET is issued only after the
\* POST was answered successfully and a job id was extracted from the answer,
\* and it addresses that job; a transport failure of either request ends the
\* invocation with that same error and no further request is issued.
C23_NoRetry ==
    op = "searchSplunk" =>
        /\ Cardinality(RequestsBy("POST")) <= 1
        /\ Cardinality(RequestsBy("GET")) <= 1
        /\ \A i \in RequestsBy("GET") :
              /\ i = 2
              /\ requests[1].method = "POST"
              /\ Len(responses) >= 1
              /\ responses[1].ok
              /\ extractSid(responses[1].data) # Absent
              /\ requests[i].path = ResultsPath(extractSid(responses[1].data)[1])
        /\ \A i \in 1..Len(responses) :
              ~responses[i].ok
                  => /\ Len(requests) = i
                     /\ Len(responses) = i
                     /\ pc = "done"
                     /\ result = Thrown(responses[i].error)

\* the results request failed after the job was created
C23_Witness ==
    /\ op = "searchSplunk"
    /\ pc = "done"
    /\ Len(requests) = 2
    /\ Len(responses) = 2
    /\ responses[1].ok
    /\ ~responses[2].ok
    /\ result = Thrown(NetworkError)

(* ------------------------------- C24 ----------------------------------- *)
\* the paths of the requests issued so far, in order
RequestPaths == [i \in 1..Len(requests) |-> requests[i].path]

\* `s` is the beginning of `t`
IsPrefixOf(s, t) == Len(s) <= Len(t) /\ \A i \in 1..Len(s) : s[i] = t[i]

\* the upstream endpoints of the handlers that issue several requests, in
\* the order of the code
ExpectedPaths ==
    CASE op = "getCurrentUser" ->
           <<"/services/authentication/current-context", UserPath(currentUsername)>>
      [] op = "listKVStoreCollections" ->
           <<"/services/server/introspection/kvstore/collectionstats",
             "/servicesNS/-/-/storage/collections/config">>
      [] op = "getIndexesAndSourcetypes" ->
           <<"/services/data/indexes", "/services/search/jobs", ResultsPath("7")>>
      [] OTHER -> RequestPaths

\* C24: at any time an invocation has at most one upstream request that is
\* not yet answered, and it waits for exactly one whenever it is suspended;
\* getCurrentUser (context, then user), listKVStoreCollections (stats, then
\* config) and getIndexesAndSourcetypes (index listing, job creation,
\* results) issue their requests in that order, each one only after the
\* previous one was answered.
C24_OneOutstanding ==
    /\ Len(responses) <= Len(requests)
    /\ Len(requests) <= Len(responses) + 1
    /\ pc \notin {"new", "idle", "done"} => Len(requests) = Len(responses) + 1
    /\ pc = "done" => Len(requests) = Len(responses)
    /\ IsPrefixOf(RequestPaths, ExpectedPaths)

\* getIndexesAndSourcetypes waits for its third request, two being answered
C24_Witness ==
    /\ op = "getIndexesAndSourcetypes"
    /\ pc = "inventoryResults"
    /\ Len(requests) = 3
    /\ Len(responses) = 2

(* ------------------------------- C25 ----------------------------------- *)
\* an invocation is under way: called and not yet settled
InvocationPending == pc \notin {"new", "idle", "done"}

\* the invocation has settled, with a value or with an error
InvocationSettled == pc = "done" /\ result.status \in {"ok", "error"}

\* C25: if no upstream request stays unanswered for ever, every invocation
\* that is under way eventually settles with a result or an error; and an
\* invocation that is under way always has an unanswered upstream request,
\* so nothing but a missing answer can keep it pending.
C25_InvocationsSettle ==
    /\ [](InvocationPending => Len(requests) > Len(responses))
    /\ InvocationPending ~> InvocationSettled

\* the three-request handler has settled with a value
C25_Witness ==
    /\ op = "getIndexesAndSourcetypes"
    /\ pc = "done"
    /\ Len(responses) = 3
    /\ result.status = "ok"

(* ------------------------------- C28 ----------------------------------- *)
\* getIndexesAndSourcetypes is over
InventoryDone == op = "getIndexesAndSourcetypes" /\ pc = "done"

\* all three requests were answered, the listing with an `entry` array and
\* the job creation with a job id
InventoryAnswered ==
    /\ Len(responses) = 3
    /\ \A i \in 1..3 : responses[i].ok
    /\ responses[1].data # Absent

\* the rows the search answered with
InventoryResultRows == entryOrEmpty(responses[3].data)

\* the index a row is grouped under
RowIndex(row) == orDefault(row.index, "")

\* the rows of one index, in the order of the answer, as group items
RowsOf(rows, index) ==
    LET mine == SelectSeq(rows, LAMBDA row : RowIndex(row) = index)
    IN  [i \in 1..Len(mine) |-> sourcetypeItem(mine[i])]

\* C28: when the index listing and the search succeed, getIndexesAndSourcetypes
\* returns the listed indexes and one group per index occurring in the rows
\* ("" for a row without one), each group holding exactly the rows of that
\* index in the order of the answer; total_sourcetypes is the number of rows
\* and total_indexes the number of listed indexes. When the listing or the
\* search fails, the failure is raised and nothing is returned.
C28_GroupsWithoutLoss ==
    InventoryDone =>
        IF InventoryAnswered
        THEN /\ result.status = "ok"
             /\ LET inventory == result.value[1]
                    rows == InventoryResultRows
                IN  /\ inventory.indexes = listedIndexes(responses[1].data)
                    /\ DOMAIN inventory.sourcetypes
                           = {RowIndex(rows[i]) : i \in 1..Len(rows)}
                    /\ \A index \in DOMAIN inventory.sourcetypes :
                          inventory.sourcetypes[index] = RowsOf(rows, index)
                    /\ inventory.metadata.total_sourcetypes = Len(rows)
                    /\ inventory.metadata.total_indexes = Len(inventory.indexes)
        ELSE /\ result.status = "error"
             /\ result.value = <<>>

(* ------------------------------- C29 ----------------------------------- *)
\* searchSplunk has issued its results request
ResultsRequested == op = "searchSplunk" /\ Len(requests) = 2

\* searchSplunk is over and both its requests were answered
SearchAnswered ==
    /\ op = "searchSplunk"
    /\ pc = "done"
    /\ Len(responses) = 2
    /\ responses[2].ok

\* C29: the results request of searchSplunk carries the result cap of the
\* call as `count`, which is the caller's value or 100 when the caller gives
\* none; when that request is answered, searchSplunk returns the `results`
\* array of the answer as it came (same rows, same order), and the empty
\* sequence when the answer has no `results`.
C29_ResultsVerbatim ==
    /\ ResultsRequested
          => /\ requests[2].body = [output_mode |-> "json", count |-> maxResults]
             /\ maxResults = 100 \/ Some(maxResults) \in MaxResultsArgs
    /\ SearchAnswered
          => result = Returned(IF responses[2].data = Absent THEN <<>>
                               ELSE responses[2].data[1])

\* a search without a cap returned two rows in the order of the answer
C29_Witness ==
    /\ SearchAnswered
    /\ requests[2].body.count = 100
    /\ responses[2].data = Some(<<RowB, RowA>>)
    /\ result.value = <<RowB, RowA>>

(* ------------------------------- C30 ----------------------------------- *)
\* listUsers is over and its request was answered
ListUsersAnswered == op = "listUsers" /\ pc = "done" /\ LastResponse.ok

\* the entries of the answer that are not malformed: objects with a content
WellFormedUsers ==
    SelectSeq(entryOrEmpty(LastResponse.data),
              LAMBDA e : e # NullEntry /\ e.content # Absent)

\* C30: whatever malformed entries the listing holds (an entry without
\* `content`, a null entry), listUsers does not fail: it returns the users of
\* all the other entries, normalized, in upstream order.
C30_MalformedEntrySkipped ==
    ListUsersAnswered
        => /\ result.status = "ok"
           /\ Len(result.value) = Len(WellFormedUsers)
           /\ \A i \in 1..Len(WellFormedUsers) :
                 result.value[i] = userOf(WellFormedUsers[i])

(* ----------------------------------------------------------------------- *)
(*                   tracing client: further properties                    *)
(* ----------------------------------------------------------------------- *)
(* ------------------------------- C26 ----------------------------------- *)
\* a value that is not a finite number
NonFinite(v) == v.kind \in {"Infinity", "-Infinity", "NaN"}

\* C26: a trace parsed from a payload whose `spans` is missing or empty has
\* no spans and no services, its startTime is +Infinity, its duration is
\* not a finite number (in particular not 0), and its operationName is unset.
C26_EmptyTrace ==
    (TraceReturned /\ AnsweredSpans = <<>>)
        => /\ ReturnedTrace.spans = <<>>
           /\ ReturnedTrace.services = <<>>
           /\ ReturnedTrace.startTime = PosInfinity
           /\ NonFinite(ReturnedTrace.duration)
           /\ ReturnedTrace.duration # Num(0)
           /\ ReturnedTrace.operationName = Absent

\* a payload without `spans` was parsed
C26_Witness ==
    /\ TraceReturned
    /\ LastResponse.data.spans = Absent
    /\ ReturnedTrace.spans = <<>>
    /\ ReturnedTrace.duration = NegInfinity

(* ------------------------------- C27 ----------------------------------- *)
\* the output log entries stand for the upstream ones, in order, with the
\* `fields` default
LogsNormalized(rawLogs, logs) ==
    /\ Len(logs) = Len(rawLogs)
    /\ \A j \in 1..Len(rawLogs) :
          logs[j].fields
              = (IF rawLogs[j].fields = Absent THEN EmptyMap ELSE rawLogs[j].fields[1])

\* tags, logs and the `unset` default of one output span, and its identity
SpanDefaultsApplied(raw, span) ==
    /\ span.spanId = raw.spanId
    /\ span.operationName = raw.operationName
    /\ raw.status = Absent => span.status = "unset"
    /\ span.tags = (IF raw.tags = Absent THEN EmptyMap ELSE raw.tags[1])
    /\ span.logs = Absent <=> raw.logs = Absent
    /\ raw.logs # Absent => LogsNormalized(raw.logs[1], span.logs[1])

\* the spans of the returned trace are the upstream spans, one for one and
\* in order, each with the defaults applied
SpansNormalized ==
    /\ Len(ReturnedTrace.spans) = Len(AnsweredSpans)
    /\ \A i \in 1..Len(AnsweredSpans) :
          SpanDefaultsApplied(AnsweredSpans[i], ReturnedTrace.spans[i])

\* C27: the spans of a returned trace are the upstream spans, as many and in
\* the same order; each has a status among ok, error and unset, "unset" when
\* upstream gives none, the empty mapping for `tags` when upstream gives
\* none, no `logs` when upstream gives none and otherwise one log entry per
\* upstream entry, in order, with `fields` defaulting to the empty mapping.
C27_SpanDefaults ==
    TraceReturned
        => /\ SpansNormalized
           /\ \A i \in 1..Len(ReturnedTrace.spans) :
                 ReturnedTrace.spans[i].status \in {"ok", "error", "unset"}

====
